---- MODULE Spec2Model ----
(***************************************************************************)
(* Model of the DPS appointment booking agent:                             *)
(*   - BookingEngine (src/src/agent/booking_engine.py): browser lifecycle, *)
(*     run_check_and_book, auto_book_slot, _build_candidate_dates          *)
(*   - DecisionEngine (src/src/agent/decision_engine.py): score_slot,      *)
(*     rank_slots                                                          *)
(*   - AgentScheduler (src/src/agent/scheduler.py): start_job, stop_job,   *)
(*     _run_check                                                          *)
(* A date string "M/D/YYYY" is the tuple <<M, D, YYYY>>; the empty string  *)
(* is <<>>.  Scores are integers in hundredths (0.90 is 90).               *)
(***************************************************************************)
EXTENDS Integers, Sequences, FiniteSets, TLC

\* ------------------------------------------------------------------------
\* Bounds
\* ------------------------------------------------------------------------
\* longest list of date texts the page shows in one run
MaxRaw == 3
\* the job's max_attempts field
MaxAttempts == 1
\* number of stop_job calls explored
MaxStops == 1
\* longest short input list given to _build_candidate_dates on its own
MaxAvail == 3
\* longest list of distinct dates given to _build_candidate_dates on its own
MaxLong == 22
\* number of start_job calls, and of stop_job calls, for the engines of one
\* job on their own
MaxCalls == 2
\* longest time, in seconds, one mailbox fetch takes, and by which one
\* asyncio.sleep is late
MaxDelay == 2
\* longest message body, in tokens, given to _extract_otp_from_message on
\* its own
MaxBody == 3
\* longest list of dates given to rank_slots on its own
MaxRank == 3
\* Confirm actions counted over the life of one job
MaxConfirms == 2
\* most buttons on the page given to _click_button_by_text on its own
MaxButtons == 2

\* ------------------------------------------------------------------------
\* Program constants
\* ------------------------------------------------------------------------
CandidateCap == 20
AvailableCap == 15
\* APScheduler's max_instances for a job added without that argument
MaxInstances == 1
\* handle_otp: get_otp_from_email(timeout=120, check_interval=5)
OtpTimeout == 120
CheckInterval == 5
\* select_service_type: for _ in range(3)
NewAppointmentPasses == 3

\* date.today() of the host during the run
Today == <<3, 10, 2026>>

NoDate == <<>>

\* date texts the site can show: yesterday, today, tomorrow
DateUniverse == { <<3, 9, 2026>>, <<3, 10, 2026>>, <<3, 11, 2026>> }

Priorities == {"any", "same_day", "next_day", "this_week"}

\* slot_priority values of the jobs explored with the scheduler: the default
\* and the one that rescales every later date
JobPriorities == {"any", "same_day"}

Levels == {"info", "success", "warning", "error"}

\* ------------------------------------------------------------------------
\* Generic sequence helpers
\* ------------------------------------------------------------------------
Range(s) == { s[i] : i \in 1..Len(s) }

Take(s, n) == SubSeq(s, 1, IF Len(s) < n THEN Len(s) ELSE n)

NoDuplicates(s) == \A i, j \in 1..Len(s) : i # j => s[i] # s[j]

SeqsUpTo(S, n) == UNION { [1..k -> S] : k \in 0..n }

\* ------------------------------------------------------------------------
\* datetime.strptime(s, "%m/%d/%Y") and date arithmetic
\* ------------------------------------------------------------------------
IsLeap(y) == (y % 4 = 0 /\ y % 100 # 0) \/ y % 400 = 0

DaysInMonth(m, y) ==
  IF m = 2 THEN (IF IsLeap(y) THEN 29 ELSE 28)
  ELSE IF m \in {4, 6, 9, 11} THEN 30 ELSE 31

\* strptime succeeds (no ValueError)
Parseable(s) ==
  /\ Len(s) = 3
  /\ s[1] \in 1..12
  /\ s[3] \in 1..9999
  /\ s[2] \in 1..DaysInMonth(s[1], s[3])

RECURSIVE DaysBeforeMonth(_, _)
DaysBeforeMonth(m, y) ==
  IF m = 1 THEN 0 ELSE DaysBeforeMonth(m - 1, y) + DaysInMonth(m - 1, y)

\* date.toordinal()
Ordinal(s) ==
  LET y1 == s[3] - 1
  IN  365 * y1 + (y1 \div 4) - (y1 \div 100) + (y1 \div 400)
      + DaysBeforeMonth(s[1], s[3]) + s[2]

DayDelta_DayOfMonthMutant(s) == s[2] - Today[2]

\* (slot_date - today).days
DayDelta(s) == Ordinal(s) - Ordinal(Today)

\* ------------------------------------------------------------------------
\* DecisionEngine.score_slot / rank_slots
\* ------------------------------------------------------------------------
\* base score in thousandths
BaseScore_WeekShiftedMutant(delta) ==
  IF delta = 0 THEN 1000
  ELSE IF delta = 1 THEN 900
  ELSE IF delta <= 3 THEN 750
  ELSE IF delta < 7 THEN 600
  ELSE IF delta <= 14 THEN 400
  ELSE IF delta <= 30 THEN 250
  ELSE 100

BaseScore(delta) ==
  IF delta = 0 THEN 1000
  ELSE IF delta = 1 THEN 900
  ELSE IF delta <= 3 THEN 750
  ELSE IF delta <= 7 THEN 600
  ELSE IF delta <= 14 THEN 400
  ELSE IF delta <= 30 THEN 250
  ELSE 100

Max2(a, b) == IF a >= b THEN a ELSE b

PriorityBoost_NoPenaltyMutant(base, delta, priority) ==
  IF priority = "next_day" /\ delta <= 1 THEN Max2(base, 950)
  ELSE IF priority = "this_week" /\ delta <= 7 THEN Max2(base, 800)
  ELSE base

PriorityBoost(base, delta, priority) ==
  IF priority = "same_day" /\ delta = 0 THEN 1000
  ELSE IF priority = "same_day" /\ delta > 0 THEN base \div 2
  ELSE IF priority = "next_day" /\ delta <= 1 THEN Max2(base, 950)
  ELSE IF priority = "this_week" /\ delta <= 7 THEN Max2(base, 800)
  ELSE base

\* round(x, 2): thousandths to hundredths, ties to even
Round2(x) ==
  LET q == x \div 10
      r == x % 10
  IN  IF r < 5 THEN q
      ELSE IF r > 5 THEN q + 1
      ELSE IF q % 2 = 0 THEN q ELSE q + 1

score_slot(s, priority) ==
  IF ~Parseable(s) THEN 10
  ELSE IF DayDelta(s) < 0 THEN 0
  ELSE Round2(PriorityBoost(BaseScore(DayDelta(s)), DayDelta(s), priority))

RECURSIVE InsertByScore_BeforeEqualsMutant(_, _)
InsertByScore_BeforeEqualsMutant(sorted, e) ==
  IF sorted = <<>> THEN <<e>>
  ELSE IF Head(sorted).score > e.score
       THEN <<Head(sorted)>> \o InsertByScore_BeforeEqualsMutant(Tail(sorted), e)
       ELSE <<e>> \o sorted

\* insert e into a list sorted by descending score, after equal scores
RECURSIVE InsertByScore(_, _)
InsertByScore(sorted, e) ==
  IF sorted = <<>> THEN <<e>>
  ELSE IF Head(sorted).score >= e.score
       THEN <<Head(sorted)>> \o InsertByScore(Tail(sorted), e)
       ELSE <<e>> \o sorted

RECURSIVE SortByScore(_)
SortByScore(scored) ==
  IF scored = <<>> THEN <<>>
  ELSE InsertByScore(SortByScore(SubSeq(scored, 1, Len(scored) - 1)),
                     scored[Len(scored)])

rank_slots_AscendingMutant(dates, priority) ==
  LET scored == [i \in 1..Len(dates) |->
                   [date |-> dates[i], score |-> 0 - score_slot(dates[i], priority)]]
      sorted == SortByScore(scored)
  IN  [i \in 1..Len(sorted) |->
         [date |-> sorted[i].date, score |-> 0 - sorted[i].score]]

rank_slots(dates, priority) ==
  SortByScore([i \in 1..Len(dates) |->
                 [date |-> dates[i], score |-> score_slot(dates[i], priority)]])

\* ------------------------------------------------------------------------
\* BookingEngine._extract_date_cards (date texts of the page, in page order)
\* ------------------------------------------------------------------------
RECURSIVE Dedup(_)
Dedup(s) ==
  IF s = <<>> THEN <<>>
  ELSE LET front == Dedup(SubSeq(s, 1, Len(s) - 1))
           last  == s[Len(s)]
       IN  IF last \in Range(front) THEN front ELSE Append(front, last)

RECURSIVE InsertByDate(_, _)
InsertByDate(sorted, e) ==
  IF sorted = <<>> THEN <<e>>
  ELSE IF Ordinal(Head(sorted)) <= Ordinal(e)
       THEN <<Head(sorted)>> \o InsertByDate(Tail(sorted), e)
       ELSE <<e>> \o sorted

RECURSIVE SortByDate(_)
SortByDate(s) ==
  IF s = <<>> THEN <<>>
  ELSE InsertByDate(SortByDate(SubSeq(s, 1, Len(s) - 1)), s[Len(s)])

\* dates.sort(key=strptime) leaves the list as it is when a key raises
extract_date_cards(raw) ==
  LET dates == Dedup(raw)
  IN  IF \A i \in 1..Len(dates) : Parseable(dates[i])
      THEN SortByDate(dates) ELSE dates

\* ------------------------------------------------------------------------
\* BookingEngine._build_candidate_dates
\* ------------------------------------------------------------------------
RECURSIVE AppendNew(_, _)
AppendNew(candidates, avail) ==
  IF avail = <<>> THEN candidates
  ELSE LET d == Head(avail)
       IN  IF d # NoDate /\ d \notin Range(candidates)
           THEN AppendNew(Append(candidates, d), Tail(avail))
           ELSE AppendNew(candidates, Tail(avail))

build_candidate_dates_NoDedupMutant(target_date, available_dates) ==
  Take((IF target_date # NoDate THEN <<target_date>> ELSE <<>>)
         \o SelectSeq(available_dates, LAMBDA d : d # NoDate),
       CandidateCap)

build_candidate_dates(target_date, available_dates) ==
  Take(AppendNew(IF target_date # NoDate THEN <<target_date>> ELSE <<>>,
                 available_dates),
       CandidateCap)


\* ------------------------------------------------------------------------
\* State
\* ------------------------------------------------------------------------
VARIABLES
  \* jobs table row (db.update_job / db.get_job)
  status, attempts,
  \* AgentScheduler: APScheduler entry "check_<job_id>", _active_engines,
  \* position of the _run_check instance and the job row it read
  scheduled, active, tpc, snap,
  \* engines started for the job so far, and whether a tick has taken the
  \* max-attempts branch
  runs, limited,
  \* position of start_job and of stop_job, number of stop_job calls, and
  \* stop_job's local `engine` (an engine was popped and cleaned)
  jpc, spc, stops, popped,
  \* configuration of the job: slot_priority of the profile, auto_book
  priority, auto_book,
  \* BookingEngine: _playwright, browser, context, page handles
  pw, browser, context, page,
  \* run_check_and_book: position, step executors invoked so far, the
  \* executor that returned failure, the return value, cleanup performed
  rpc, invoked, failed, result, cleaned,
  \* auto_book_slot: candidate list, loop index, dates attempted, what
  \* happened to each candidate, clicks issued, levels emitted, return
  \* value, why the loop ended, what page.content() showed
  candidates, idx, attempted, outcome, prevClicks, confirmClicks,
  bookLevels, booked, endReason, finalContent, stubFault,
  \* _build_candidate_dates applied on its own
  fnTarget, fnAvail, fnOut, fnDone,
  \* _run_check instances of one job and their engines, on their own:
  \* APScheduler entry, job status, position of each instance, whether its
  \* engine has a live browser session, the instance whose engine is in
  \* _active_engines, positions of start_job and stop_job, the instance
  \* whose engine stop_job popped, calls made
  xScheduled, xStatus, xInst, xLive, xActive, xJpc, xSpc, xPopped,
  xStarts, xStops,
  \* Confirm actions issued over the life of the job, and whether the run
  \* of an instance issued one
  xConfirms, xIssued,
  \* one run of run_check_and_book and its status events, on its own: what
  \* the site does, which of the two runs is executing (the first with a
  \* sink that may raise, the second with one that never does), position
  \* in the run, self.page, the local `ss`, events passed to the sink,
  \* browser actions issued, return value, outcome of the first run,
  \* whether the sink raised
  eScn, eRun, ePos, ePage, eSs, eEvents, eActs, eRet, eFirst, eRaised,
  \* get_otp_from_email on its own: position, seconds since start_time,
  \* fetches started, second at which a fetch yielded a code, whether a
  \* fetch raised, return value
  oPc, oNow, oFetches, oCodeAt, oRaised, oRet,
  \* handle_otp on its own: position, what the page shows, whether the
  \* passcode input is visible, calls of get_otp_from_email, return value
  hPc, hPage, hField, hMailbox, hRet,
  \* select_service_type, entered after a successful handle_otp on the
  \* page that step left: position, passes of the New Appointment loop,
  \* whether a dialog is intercepting clicks, dismissals / clicks / step
  \* checks made so far, return value
  sPc, sPass, sOverlay, sLog, sRet,
  \* auto_book_slot: whether Previous was clicked on a page that
  \* _is_on_time_or_confirm_step had not classified as a time or confirm step
  prevOffStep,
  \* _extract_otp_from_message on its own: the body, the code returned,
  \* whether it was called
  mBody, mOut, mDone,
  \* _determine_service on its own: the profile, the (service, confidence)
  \* returned, whether it was called
  dProfile, dOut, dDone,
  \* rank_slots on its own: the dates, the priority, the list returned,
  \* whether it was called
  kDates, kPriority, kOut, kDone,
  \* DPSAppointmentChecker.check_appointments on its own: position, what
  \* the site and the mailbox do, result of handle_otp_verification,
  \* steps called, notifications sent, results saved, return value
  aPc, aEnv, aOtpRet, aCalls, aNotified, aSaved, aRet,
  \* get_available_appointments on its own: the date texts of the page in
  \* page order, the dict returned, whether it was called
  gRaw, gOut, gDone,
  \* _date_variants on its own: the text, the list returned, whether it
  \* was called
  vIn, vOut, vDone,
  \* _click_button_by_text on its own: the buttons of the page in page
  \* order, the keywords, the page (none, ok, or broken: its calls
  \* raise), position,
  \* index of the button looked at, labels clicked, return value
  cButtons, cKeywords, cPage, cPc, cPos, cClicked, cRet

jobVars    == <<status, attempts>>
tickVars   == <<scheduled, active, tpc, snap, runs, limited>>
callVars   == <<jpc, spc, stops, popped>>
cfgVars    == <<priority, auto_book>>
handleVars == <<pw, browser, context, page>>
runVars    == <<rpc, invoked, failed, result, cleaned>>
bookVars   == <<candidates, idx, attempted, outcome, prevClicks, confirmClicks,
                bookLevels, booked, endReason, finalContent, stubFault>>
fnVars     == <<fnTarget, fnAvail, fnOut, fnDone>>
sessVars   == <<xScheduled, xStatus, xInst, xLive, xActive, xJpc, xSpc, xPopped,
                xStarts, xStops, xConfirms, xIssued>>
emitVars   == <<eScn, eRun, ePos, ePage, eSs, eEvents, eActs, eRet, eFirst, eRaised>>
otpVars    == <<oPc, oNow, oFetches, oCodeAt, oRaised, oRet>>
hVars      == <<hPc, hPage, hField, hMailbox, hRet>>
sVars      == <<sPc, sPass, sOverlay, sLog, sRet>>
probeVars  == <<prevOffStep>>
mVars      == <<mBody, mOut, mDone>>
dVars      == <<dProfile, dOut, dDone>>
kVars      == <<kDates, kPriority, kOut, kDone>>
aVars      == <<aPc, aEnv, aOtpRet, aCalls, aNotified, aSaved, aRet>>
gVars      == <<gRaw, gOut, gDone>>
vVars      == <<vIn, vOut, vDone>>
cVars      == <<cButtons, cKeywords, cPage, cPc, cPos, cClicked, cRet>>
unitVars   == <<gVars, vVars, cVars>>
pureVars   == <<mVars, dVars, kVars, aVars, unitVars>>
stepVars   == <<hVars, sVars>>
lateVars   == <<hVars, sVars, probeVars, pureVars>>
soloVars   == <<sessVars, emitVars, otpVars, lateVars>>
earlyVars  == <<sessVars, emitVars, otpVars>>

vars == <<jobVars, tickVars, callVars, cfgVars, handleVars, runVars,
          bookVars, fnVars, soloVars>>

\* everything but the variables of the parts run on their own
mainVars == <<jobVars, tickVars, callVars, cfgVars, handleVars, runVars,
              bookVars, fnVars>>

\* what the steps of one specification leave alone
outerVars == <<mainVars, earlyVars, probeVars, pureVars>>
hOthers   == <<outerVars, sVars>>
sOthers   == <<outerVars, hPc, hField, hMailbox, hRet>>
mOthers   == <<mainVars, earlyVars, probeVars, stepVars, dVars, kVars, aVars, unitVars>>
dOthers   == <<mainVars, earlyVars, probeVars, stepVars, mVars, kVars, aVars, unitVars>>
kOthers   == <<mainVars, earlyVars, probeVars, stepVars, mVars, dVars, aVars, unitVars>>
aOthers   == <<mainVars, earlyVars, probeVars, stepVars, mVars, dVars, kVars, unitVars>>
olderVars == <<mainVars, earlyVars, probeVars, stepVars, mVars, dVars, kVars, aVars>>
gOthers   == <<olderVars, vVars, cVars>>
vOthers   == <<olderVars, gVars, cVars>>
cOthers   == <<olderVars, gVars, vVars>>

TerminalStatuses == {"stopped", "booked", "failed"}

StepOrder == <<"navigate", "login", "otp", "service", "location", "slots", "book">>

\* the value None of run_check_and_book, and the appointments dict
NoResult ==
  [some |-> FALSE, next_available |-> NoDate, available_dates |-> <<>>,
   total_slots |-> 0, target_date |-> NoDate,
   booking_attempted |-> FALSE, booking_confirmed |-> FALSE]

\* ------------------------------------------------------------------------
\* Initial state: the job row as create_job inserts it, a fresh scheduler
\* ------------------------------------------------------------------------
EngineFresh ==
  /\ pw = FALSE /\ browser = FALSE /\ context = FALSE /\ page = FALSE
  /\ rpc = "idle" /\ invoked = <<>> /\ failed = "none"
  /\ result = NoResult /\ cleaned = FALSE
  /\ candidates = <<>> /\ idx = 0 /\ attempted = <<>> /\ outcome = <<>>
  /\ prevClicks = 0 /\ confirmClicks = 0 /\ bookLevels = {}
  /\ booked = "none" /\ endReason = "none" /\ finalContent = <<>>
  /\ stubFault = FALSE

FnIdle ==
  /\ fnTarget = NoDate /\ fnAvail = <<>> /\ fnOut = <<>> /\ fnDone = FALSE

\* _run_check instances that can exist side by side in the executor
Instances == {1, 2}

SessIdle ==
  /\ xScheduled = FALSE /\ xStatus = "pending"
  /\ xInst = [i \in Instances |-> "idle"]
  /\ xLive = [i \in Instances |-> FALSE]
  /\ xActive = 0 /\ xJpc = "idle" /\ xSpc = "idle" /\ xPopped = 0
  /\ xStarts = 0 /\ xStops = 0
  /\ xConfirms = 0 /\ xIssued = [i \in Instances |-> FALSE]

NoScenario == [step |-> "none", how |-> "none", fill |-> "ok", shots |-> TRUE]

NoOutcome == [ret |-> "none", acts |-> <<>>]

EmitIdle ==
  /\ eScn = NoScenario /\ eRun = 0 /\ ePos = 0 /\ ePage = FALSE /\ eSs = FALSE
  /\ eEvents = {} /\ eActs = <<>> /\ eRet = "pending" /\ eFirst = NoOutcome
  /\ eRaised = FALSE

OtpIdle ==
  /\ oPc = "idle" /\ oNow = 0 /\ oFetches = 0 /\ oCodeAt = -1 /\ oRet = "pending"
  /\ oRaised = FALSE

HandleOtpIdle ==
  /\ hPc = "idle" /\ hPage = "none" /\ hField = FALSE /\ hMailbox = 0
  /\ hRet = "pending"

ServiceIdle ==
  /\ sPc = "idle" /\ sPass = 0 /\ sOverlay = FALSE /\ sLog = <<>>
  /\ sRet = "pending"

NoCapture == [at |-> 0, len |-> 0]

ExtractIdle == mBody = <<>> /\ mOut = NoCapture /\ mDone = FALSE

\* profile.get("age") is None
NoAge == [known |-> FALSE, years |-> 0]

NoProfile ==
  [has_texas_license |-> FALSE, has_out_of_state_license |-> FALSE,
   license_expired |-> FALSE, license_lost_stolen |-> FALSE,
   is_commercial |-> FALSE, id_only |-> FALSE, needs_permit |-> FALSE,
   age |-> NoAge]

ClassifyIdle == dProfile = NoProfile /\ dOut = <<>> /\ dDone = FALSE

RankIdle == kDates = <<>> /\ kPriority = "any" /\ kOut = <<>> /\ kDone = FALSE

StepsIdle == HandleOtpIdle /\ ServiceIdle

NoEnv == [field |-> FALSE, code |-> FALSE, found |-> FALSE, shots |-> FALSE]

CheckerIdle ==
  /\ aPc = "idle" /\ aEnv = NoEnv /\ aOtpRet = "pending" /\ aCalls = <<>>
  /\ aNotified = 0 /\ aSaved = 0 /\ aRet = "pending"

NoSlots == [some |-> FALSE, next_available |-> NoDate, available_dates |-> <<>>]

SlotsIdle == gRaw = <<>> /\ gOut = NoSlots /\ gDone = FALSE

NoText == [lead |-> FALSE, core |-> <<>>, trail |-> FALSE]

VariantsIdle == vIn = NoText /\ vOut = <<>> /\ vDone = FALSE

ClickIdle ==
  /\ cButtons = <<>> /\ cKeywords = {} /\ cPage = "none" /\ cPc = "idle"
  /\ cPos = 0 /\ cClicked = <<>> /\ cRet = "pending"

UnitIdle == SlotsIdle /\ VariantsIdle /\ ClickIdle

LateIdle ==
  /\ StepsIdle /\ prevOffStep = FALSE
  /\ ExtractIdle /\ ClassifyIdle /\ RankIdle /\ CheckerIdle /\ UnitIdle

EngineIdle ==
  /\ status = "pending" /\ attempts = 0
  /\ scheduled = FALSE /\ active = FALSE /\ tpc = "idle"
  /\ snap = [status |-> "pending", attempts |-> 0]
  /\ runs = 0 /\ limited = FALSE
  /\ jpc = "idle" /\ spc = "idle" /\ stops = 0 /\ popped = FALSE
  /\ priority = "any"
  /\ auto_book = TRUE
  /\ EngineFresh

EarlyIdle == EngineIdle /\ FnIdle /\ SessIdle /\ EmitIdle /\ OtpIdle

Init ==
  /\ status = "pending" /\ attempts = 0
  /\ scheduled = FALSE /\ active = FALSE /\ tpc = "idle"
  /\ snap = [status |-> "pending", attempts |-> 0]
  /\ runs = 0 /\ limited = FALSE
  /\ jpc = "idle" /\ spc = "idle" /\ stops = 0 /\ popped = FALSE
  /\ priority \in JobPriorities
  /\ auto_book \in BOOLEAN
  /\ EngineFresh
  /\ FnIdle
  /\ SessIdle /\ EmitIdle /\ OtpIdle /\ LateIdle

\* ------------------------------------------------------------------------
\* BookingEngine.cleanup: one handle per step (close, then set to None)
\* ------------------------------------------------------------------------
CleanupPage    == page' = FALSE /\ UNCHANGED <<pw, browser, context>>

CleanupContext == context' = FALSE /\ UNCHANGED <<pw, browser, page>>

CleanupBrowser == browser' = FALSE /\ UNCHANGED <<pw, context, page>>

CleanupPlaywright_KeepMutant == UNCHANGED <<pw, browser, context, page>>

CleanupPlaywright == pw' = FALSE /\ UNCHANGED <<browser, context, page>>

\* ------------------------------------------------------------------------
\* BookingEngine.setup_browser, as called first by run_check_and_book.
\* Every browser call either completes or raises.
\* ------------------------------------------------------------------------
\* where run_check_and_book goes when an exception reaches it:
\* the except clause, then the finally clause
OnException == "except"

Raise ==
  /\ rpc' = OnException
  /\ UNCHANGED <<invoked, failed, result, cleaned>>

Goto(pc) ==
  /\ rpc' = pc
  /\ UNCHANGED <<invoked, failed, result, cleaned>>

\* self._playwright = await async_playwright().start()
R_SetupPlaywright ==
  /\ rpc = "setup_pw"
  /\ \/ pw' = TRUE /\ Goto("launch_call")
     \/ pw' = pw /\ Raise
  /\ UNCHANGED <<browser, context, page>>
  /\ UNCHANGED <<jobVars, tickVars, callVars, cfgVars, bookVars, fnVars, soloVars>>

\* self._playwright.chromium.launch(...) is evaluated, then awaited
R_LaunchCall ==
  /\ rpc = "launch_call"
  /\ IF pw THEN Goto("launch_wait") ELSE Raise
  /\ UNCHANGED <<jobVars, tickVars, callVars, cfgVars, handleVars, bookVars, fnVars, soloVars>>

R_LaunchReturn ==
  /\ rpc = "launch_wait"
  /\ \/ browser' = TRUE /\ Goto("context_call")
     \/ browser' = browser /\ Raise
  /\ UNCHANGED <<pw, context, page>>
  /\ UNCHANGED <<jobVars, tickVars, callVars, cfgVars, bookVars, fnVars, soloVars>>

\* self.context = await self.browser.new_context(...)
R_ContextCall ==
  /\ rpc = "context_call"
  /\ IF browser THEN Goto("context_wait") ELSE Raise
  /\ UNCHANGED <<jobVars, tickVars, callVars, cfgVars, handleVars, bookVars, fnVars, soloVars>>

R_ContextReturn ==
  /\ rpc = "context_wait"
  /\ \/ context' = TRUE /\ Goto("page_call")
     \/ context' = context /\ Raise
  /\ UNCHANGED <<pw, browser, page>>
  /\ UNCHANGED <<jobVars, tickVars, callVars, cfgVars, bookVars, fnVars, soloVars>>

\* self.page = await self.context.new_page()
R_PageCall ==
  /\ rpc = "page_call"
  /\ IF context THEN Goto("page_wait") ELSE Raise
  /\ UNCHANGED <<jobVars, tickVars, callVars, cfgVars, handleVars, bookVars, fnVars, soloVars>>

R_PageReturn ==
  /\ rpc = "page_wait"
  /\ \/ page' = TRUE /\ Goto("navigate")
     \/ page' = page /\ Raise
  /\ UNCHANGED <<pw, browser, context>>
  /\ UNCHANGED <<jobVars, tickVars, callVars, cfgVars, bookVars, fnVars, soloVars>>

\* ------------------------------------------------------------------------
\* run_check_and_book: the step executors before slot discovery.  Each one
\* returns False when self.page is None, catches its own exceptions, and
\* otherwise succeeds or fails as the site decides.
\* ------------------------------------------------------------------------
NextStep(step) ==
  CASE step = "navigate" -> "login"
    [] step = "login"    -> "otp"
    [] step = "otp"      -> "service"
    [] step = "service"  -> "location"
    [] step = "location" -> "slots"

\* a step returned failure: `return None`, then the finally clause
AfterFailure_ContinueMutant(step) == NextStep(step)

AfterFailure(step) == "cl_page"

R_Step(step) ==
  /\ rpc = step
  /\ invoked' = Append(invoked, step)
  /\ \E ok \in (IF page THEN BOOLEAN ELSE {FALSE}) :
       IF ok
       THEN /\ rpc' = NextStep(step)
            /\ UNCHANGED failed
       ELSE /\ rpc' = AfterFailure(step)
            /\ failed' = step
  /\ UNCHANGED <<result, cleaned>>
  /\ UNCHANGED <<jobVars, tickVars, callVars, cfgVars, handleVars, bookVars, fnVars, soloVars>>

R_Navigate == R_Step("navigate")

R_Login    == R_Step("login")

R_Otp      == R_Step("otp")

R_Service  == R_Step("service")

R_Location == R_Step("location")

\* get_available_appointments: None without a page, on an exception and
\* when no date card is found; otherwise the appointments dict
R_Slots ==
  /\ rpc = "slots"
  /\ invoked' = Append(invoked, "slots")
  /\ \E raw \in (IF page THEN SeqsUpTo(DateUniverse, MaxRaw) ELSE {<<>>}) :
       LET date_candidates == extract_date_cards(raw)
       IN  IF date_candidates = <<>>
           THEN /\ rpc' = "cl_page"
                /\ failed' = "slots"
                /\ UNCHANGED result
           ELSE /\ rpc' = "rank"
                /\ result' = [NoResult EXCEPT
                                !.some = TRUE,
                                !.next_available = date_candidates[1],
                                !.available_dates = Take(date_candidates, AvailableCap),
                                !.total_slots = Len(date_candidates)]
                /\ UNCHANGED failed
  /\ UNCHANGED cleaned
  /\ UNCHANGED <<jobVars, tickVars, callVars, cfgVars, handleVars, bookVars, fnVars, soloVars>>

\* best_date: first available date, replaced by the ranker's first entry
BestDate(available_dates) ==
  LET ranked == rank_slots(available_dates, priority)
  IN  IF ranked # <<>> THEN ranked[1].date ELSE available_dates[1]

\* Step 7 of run_check_and_book up to the call of auto_book_slot
R_Rank ==
  /\ rpc = "rank"
  /\ IF auto_book /\ result.available_dates # <<>>
     THEN /\ result' = [result EXCEPT
                          !.booking_attempted = TRUE,
                          !.target_date = BestDate(result.available_dates)]
          /\ rpc' = "book_start"
     ELSE /\ rpc' = "cl_page"
          /\ UNCHANGED result
  /\ UNCHANGED <<invoked, failed, cleaned>>
  /\ UNCHANGED <<jobVars, tickVars, callVars, cfgVars, handleVars, bookVars, fnVars, soloVars>>

\* ------------------------------------------------------------------------
\* auto_book_slot.  A page text is a sequence of lower-case words.
\* ------------------------------------------------------------------------
ConfirmPhrases ==
  { <<"confirmation", "number">>,
    <<"your", "appointment", "has", "been", "confirmed">>,
    <<"appointment", "has", "been", "confirmed">>,
    <<"has", "been", "confirmed">> }

\* page texts the site can show after the confirm step
FinalContents ==
  { <<"confirmation", "number", "12345">>,
    <<"your", "appointment", "has", "been", "confirmed">>,
    <<"please", "confirm", "your", "appointment">>,
    <<"session", "has", "expired">> }

\* k in text
Contains(text, k) ==
  \E i \in 1..Len(text) :
     /\ i + Len(k) - 1 <= Len(text)
     /\ SubSeq(text, i, i + Len(k) - 1) = k

ConfirmationDetected_NumberOnlyMutant(final_content) ==
  Contains(final_content, <<"confirmation", "number">>)

\* any(k in final_content.lower() for k in [...])
ConfirmationDetected(final_content) ==
  \E k \in ConfirmPhrases : Contains(final_content, k)

\* results of a click helper that falls back to _click_button_by_text
\* (_click_previous, _click_next): clicked, not found, or the exception of
\* page.query_selector_all / text_content, which needs self.page
ClickResults == IF page THEN {"ok", "no", "raise"} ELSE {"no"}

\* results of a helper that catches every exception (_is_on_*_step,
\* _click_date_on_page, _find_and_click_time_slot)
Probe == IF page THEN BOOLEAN ELSE {FALSE}

Emit(level) == bookLevels' = bookLevels \cup {level}

EmitAll(levels) == bookLevels' = bookLevels \cup levels

BookGoto(pc) ==
  /\ rpc' = pc
  /\ UNCHANGED <<failed, result, cleaned>>

\* an exception reaches the outer except clause of auto_book_slot
OnBookException == "book_except"

BookRaise(reason) ==
  /\ BookGoto(OnBookException)
  /\ endReason' = reason
  /\ outcome' = [outcome EXCEPT ![idx] = IF reason = "raised" THEN "raised" ELSE @]

\* `continue`: the candidate is given up, the loop advances
Skip(kind) ==
  /\ outcome' = [outcome EXCEPT ![idx] = kind]
  /\ idx' = idx + 1
  /\ BookGoto("book_loop")

\* entry of auto_book_slot up to the first await inside the loop
B_Start ==
  /\ rpc = "book_start"
  /\ invoked' = Append(invoked, "book")
  /\ IF ~page
     THEN /\ booked' = "false" /\ endReason' = "no_page"
          /\ BookGoto("book_done")
          /\ UNCHANGED <<candidates, idx, outcome, bookLevels>>
     ELSE LET candidate_dates ==
                build_candidate_dates(result.target_date, result.available_dates)
          IN  /\ candidates' = candidate_dates
              /\ outcome' = [i \in 1..Len(candidate_dates) |-> "none"]
              /\ IF candidate_dates = <<>>
                 THEN /\ Emit("warning")
                      /\ booked' = "false" /\ endReason' = "no_dates"
                      /\ BookGoto("book_done")
                      /\ UNCHANGED idx
                 ELSE /\ Emit("info")
                      /\ idx' = 1
                      /\ BookGoto("book_loop")
                      /\ UNCHANGED <<booked, endReason>>
  /\ UNCHANGED <<attempted, prevClicks, confirmClicks, finalContent, stubFault>>
  /\ UNCHANGED <<jobVars, tickVars, callVars, cfgVars, handleVars, fnVars, soloVars>>

\* head of `for date_index, d in enumerate(candidate_dates)`
B_Loop ==
  /\ rpc = "book_loop"
  /\ IF idx > Len(candidates)
     THEN /\ Emit("warning")
          /\ booked' = "false" /\ endReason' = "exhausted"
          /\ BookGoto("book_done")
          /\ UNCHANGED attempted
     ELSE /\ Emit("info")
          /\ attempted' = Append(attempted, candidates[idx])
          /\ BookGoto(IF idx > 1 THEN "book_back" ELSE "book_date")
          /\ UNCHANGED <<booked, endReason>>
  /\ UNCHANGED <<invoked, candidates, idx, outcome, prevClicks, confirmClicks,
                 finalContent, stubFault>>
  /\ UNCHANGED <<jobVars, tickVars, callVars, cfgVars, handleVars, fnVars, soloVars>>

\* if await self._is_on_time_or_confirm_step(page): Previous is clicked
GoBack_AlwaysMutant(onStep) == TRUE

GoBack(onStep) == onStep

\* `if date_index > 0`: Previous, only on a time or confirm step
B_Back ==
  /\ rpc = "book_back"
  /\ \E onStep \in Probe :
       /\ IF GoBack(onStep)
          THEN \E c \in ClickResults :
                 /\ stubFault' = (stubFault \/ c # "ok")
                 /\ CASE c = "ok" ->
                           /\ prevClicks' = prevClicks + 1
                           /\ Emit("info")
                           /\ BookGoto("book_date")
                           /\ UNCHANGED <<endReason, outcome>>
                      [] c = "no" ->
                           /\ EmitAll({"info", "warning"})
                           /\ BookGoto("book_date")
                           /\ UNCHANGED <<prevClicks, endReason, outcome>>
                      [] c = "raise" ->
                           /\ Emit("info")
                           /\ BookRaise("raised")
                           /\ UNCHANGED prevClicks
          ELSE /\ stubFault' = (stubFault \/ outcome[idx - 1] = "no_time")
               /\ Emit("info")
               /\ BookGoto("book_date")
               /\ UNCHANGED <<prevClicks, endReason, outcome>>
       /\ prevOffStep' = (prevOffStep \/ (prevClicks' # prevClicks /\ ~onStep))
  /\ UNCHANGED <<invoked, candidates, idx, attempted, confirmClicks,
                 booked, finalContent>>
  /\ UNCHANGED <<jobVars, tickVars, callVars, cfgVars, handleVars, fnVars,
                 earlyVars, hVars, sVars, pureVars>>

\* 1) _click_date_on_page
B_Date ==
  /\ rpc = "book_date"
  /\ \E clicked \in Probe :
       IF clicked
       THEN /\ Emit("info")
            /\ BookGoto("book_next1")
            /\ UNCHANGED stubFault
       ELSE /\ stubFault' = TRUE
            /\ BookGoto("book_date_retry")
            /\ UNCHANGED bookLevels
  /\ UNCHANGED <<invoked, candidates, idx, attempted, outcome, prevClicks,
                 confirmClicks, booked, endReason, finalContent>>
  /\ UNCHANGED <<jobVars, tickVars, callVars, cfgVars, handleVars, fnVars, soloVars>>

\* `if not date_clicked`: Previous and one more click when on a later step
B_DateRetry ==
  /\ rpc = "book_date_retry"
  /\ \E onStep \in Probe :
       /\ IF GoBack(onStep)
          THEN \E c \in ClickResults :
                 CASE c = "ok" ->
                        /\ prevClicks' = prevClicks + 1
                        /\ \E clicked \in Probe :
                             IF clicked
                             THEN /\ Emit("info")
                                  /\ BookGoto("book_next1")
                                  /\ UNCHANGED <<idx, outcome>>
                             ELSE /\ EmitAll({"info", "warning"})
                                  /\ Skip("fail")
                        /\ UNCHANGED endReason
                   [] c = "no" ->
                        /\ EmitAll({"info", "warning"})
                        /\ Skip("fail")
                        /\ UNCHANGED <<prevClicks, endReason>>
                   [] c = "raise" ->
                        /\ Emit("info")
                        /\ BookRaise("raised")
                        /\ UNCHANGED <<prevClicks, idx>>
          ELSE /\ Emit("warning")
               /\ Skip("fail")
               /\ UNCHANGED <<prevClicks, endReason>>
       /\ prevOffStep' = (prevOffStep \/ (prevClicks' # prevClicks /\ ~onStep))
  /\ UNCHANGED <<invoked, candidates, attempted, confirmClicks, booked,
                 finalContent, stubFault>>
  /\ UNCHANGED <<jobVars, tickVars, callVars, cfgVars, handleVars, fnVars,
                 earlyVars, hVars, sVars, pureVars>>

\* 2) and 4) _click_next
B_Next(here, there) ==
  /\ rpc = here
  /\ \E c \in ClickResults :
       CASE c = "ok" ->
              /\ Emit("info")
              /\ BookGoto(there)
              /\ UNCHANGED <<idx, outcome, endReason>>
         [] c = "no" ->
              /\ Emit("warning")
              /\ Skip("fail")
              /\ UNCHANGED endReason
         [] c = "raise" ->
              /\ BookRaise("raised")
              /\ UNCHANGED <<idx, bookLevels>>
  /\ UNCHANGED <<invoked, candidates, attempted, prevClicks, confirmClicks,
                 booked, finalContent, stubFault>>
  /\ UNCHANGED <<jobVars, tickVars, callVars, cfgVars, handleVars, fnVars, soloVars>>

B_NextAfterDate == B_Next("book_next1", "book_time_step")

B_NextAfterTime == B_Next("book_next2", "book_confirm_step")

\* _is_on_time_step after the first Next
B_TimeStep ==
  /\ rpc = "book_time_step"
  /\ \E onStep \in Probe :
       IF onStep
       THEN /\ BookGoto("book_time_slot")
            /\ UNCHANGED <<idx, outcome, bookLevels>>
       ELSE /\ Emit("warning")
            /\ Skip("fail")
  /\ UNCHANGED <<invoked, candidates, attempted, prevClicks, confirmClicks,
                 booked, endReason, finalContent, stubFault>>
  /\ UNCHANGED <<jobVars, tickVars, callVars, cfgVars, handleVars, fnVars, soloVars>>

\* 3) _find_and_click_time_slot
B_TimeSlot ==
  /\ rpc = "book_time_slot"
  /\ \E found \in Probe :
       IF found
       THEN /\ Emit("success")
            /\ BookGoto("book_next2")
            /\ UNCHANGED <<idx, outcome>>
       ELSE /\ Emit("warning")
            /\ Skip("no_time")
  /\ UNCHANGED <<invoked, candidates, attempted, prevClicks, confirmClicks,
                 booked, endReason, finalContent, stubFault>>
  /\ UNCHANGED <<jobVars, tickVars, callVars, cfgVars, handleVars, fnVars, soloVars>>

\* _is_on_confirm_step after the second Next
B_ConfirmStep ==
  /\ rpc = "book_confirm_step"
  /\ \E onStep \in Probe :
       IF onStep
       THEN /\ outcome' = [outcome EXCEPT ![idx] = "confirm"]
            /\ BookGoto("book_confirm")
            /\ UNCHANGED <<idx, bookLevels>>
       ELSE /\ Emit("warning")
            /\ Skip("fail")
  /\ UNCHANGED <<invoked, candidates, attempted, prevClicks, confirmClicks,
                 booked, endReason, finalContent, stubFault>>
  /\ UNCHANGED <<jobVars, tickVars, callVars, cfgVars, handleVars, fnVars, soloVars>>

ConfirmActions_NoElseMutant(c) == IF c = "button" THEN 2 ELSE IF c = "fallback" THEN 1 ELSE 0

\* Confirm actions of step 5: one click, on the button by role or else on
\* the first button _click_button_by_text finds
ConfirmActions(c) == IF c \in {"button", "fallback"} THEN 1 ELSE 0

\* 5) Confirm: the button by role, else _click_button_by_text; count(),
\* is_enabled() and click() are not guarded and fail on a closed page
B_Confirm ==
  /\ rpc = "book_confirm"
  /\ IF ~page
     THEN /\ BookRaise("confirm")
          /\ UNCHANGED <<confirmClicks, bookLevels>>
     ELSE \E c \in {"button", "fallback", "none", "raise"} :
            CASE c \in {"button", "fallback"} ->
                   /\ confirmClicks' = confirmClicks + ConfirmActions(c)
                   /\ Emit("info")
                   /\ BookGoto("book_content")
                   /\ UNCHANGED <<endReason, outcome>>
              [] c = "none" ->
                   /\ BookGoto("book_content")
                   /\ UNCHANGED <<confirmClicks, bookLevels, endReason, outcome>>
              [] c = "raise" ->
                   /\ BookRaise("confirm")
                   /\ UNCHANGED <<confirmClicks, bookLevels>>
  /\ UNCHANGED <<invoked, candidates, idx, attempted, prevClicks,
                 booked, finalContent, stubFault>>
  /\ UNCHANGED <<jobVars, tickVars, callVars, cfgVars, handleVars, fnVars, soloVars>>

\* where the loop goes when the confirmation is not detected: return False
AfterUnconfirmed_RetryMutant == "book_loop"

AfterUnconfirmed == "book_done"

\* 6) page.content() and the confirmation phrases
B_Content ==
  /\ rpc = "book_content"
  /\ IF ~page
     THEN /\ BookRaise("confirm")
          /\ UNCHANGED <<finalContent, booked, bookLevels, idx>>
     ELSE \/ /\ BookRaise("confirm")
             /\ UNCHANGED <<finalContent, booked, bookLevels, idx>>
          \/ \E final_content \in FinalContents :
               /\ finalContent' = final_content
               /\ endReason' = "confirm"
               /\ UNCHANGED outcome
               /\ IF ConfirmationDetected(final_content)
                  THEN /\ Emit("success")
                       /\ booked' = "true"
                       /\ BookGoto("book_done")
                       /\ UNCHANGED idx
                  ELSE /\ Emit("warning")
                       /\ booked' = IF AfterUnconfirmed = "book_done"
                                    THEN "false" ELSE booked
                       /\ idx' = IF AfterUnconfirmed = "book_done"
                                 THEN idx ELSE idx + 1
                       /\ BookGoto(AfterUnconfirmed)
  /\ UNCHANGED <<invoked, candidates, attempted, prevClicks,
                 confirmClicks, stubFault>>
  /\ UNCHANGED <<jobVars, tickVars, callVars, cfgVars, handleVars, fnVars, soloVars>>

\* `except Exception`: screenshot, error event, return False
B_Except ==
  /\ rpc = "book_except"
  /\ Emit("error")
  /\ booked' = "false"
  /\ BookGoto("book_done")
  /\ UNCHANGED <<invoked, candidates, idx, attempted, outcome, prevClicks,
                 confirmClicks, endReason, finalContent, stubFault>>
  /\ UNCHANGED <<jobVars, tickVars, callVars, cfgVars, handleVars, fnVars, soloVars>>

\* back in run_check_and_book: appointments['booking_confirmed'] = booked
R_Booked ==
  /\ rpc = "book_done"
  /\ result' = [result EXCEPT !.booking_confirmed = (booked = "true")]
  /\ rpc' = "cl_page"
  /\ UNCHANGED <<invoked, failed, cleaned>>
  /\ UNCHANGED <<jobVars, tickVars, callVars, cfgVars, handleVars, bookVars, fnVars, soloVars>>

\* `except Exception` of run_check_and_book: screenshot, error event, None
R_Except ==
  /\ rpc = "except"
  /\ result' = NoResult
  /\ rpc' = "cl_page"
  /\ UNCHANGED <<invoked, failed, cleaned>>
  /\ UNCHANGED <<jobVars, tickVars, callVars, cfgVars, handleVars, bookVars, fnVars, soloVars>>

\* `finally: await self.cleanup()`
R_CleanupPage ==
  /\ rpc = "cl_page"
  /\ CleanupPage
  /\ rpc' = "cl_context"
  /\ UNCHANGED <<invoked, failed, result, cleaned>>
  /\ UNCHANGED <<jobVars, tickVars, callVars, cfgVars, bookVars, fnVars, soloVars>>

R_CleanupContext ==
  /\ rpc = "cl_context"
  /\ CleanupContext
  /\ rpc' = "cl_browser"
  /\ UNCHANGED <<invoked, failed, result, cleaned>>
  /\ UNCHANGED <<jobVars, tickVars, callVars, cfgVars, bookVars, fnVars, soloVars>>

R_CleanupBrowser ==
  /\ rpc = "cl_browser"
  /\ CleanupBrowser
  /\ rpc' = "cl_playwright"
  /\ UNCHANGED <<invoked, failed, result, cleaned>>
  /\ UNCHANGED <<jobVars, tickVars, callVars, cfgVars, bookVars, fnVars, soloVars>>

\* last handle released, "Browser cleaned up" emitted, the call returns
R_CleanupPlaywright ==
  /\ rpc = "cl_playwright"
  /\ CleanupPlaywright
  /\ cleaned' = TRUE
  /\ rpc' = "returned"
  /\ UNCHANGED <<invoked, failed, result>>
  /\ UNCHANGED <<jobVars, tickVars, callVars, cfgVars, bookVars, fnVars, soloVars>>

\* ------------------------------------------------------------------------
\* AgentScheduler.start_job, called by create_job for the new pending job
\* ------------------------------------------------------------------------
\* db.update_job(job_id, {"status": "running"})
J_StartUpdate ==
  /\ jpc = "idle"
  /\ status = "pending"
  /\ status' = "running"
  /\ jpc' = "register"
  /\ UNCHANGED <<attempts, spc, stops, popped>>
  /\ UNCHANGED <<tickVars, cfgVars, handleVars, runVars, bookVars, fnVars, soloVars>>

\* scheduler.add_job(..., replace_existing=True, next_run_time=now)
J_StartRegister ==
  /\ jpc = "register"
  /\ scheduled' = TRUE
  /\ jpc' = "done"
  /\ UNCHANGED <<active, tpc, snap, runs, limited, spc, stops, popped>>
  /\ UNCHANGED <<jobVars, cfgVars, handleVars, runVars, bookVars, fnVars, soloVars>>

\* ------------------------------------------------------------------------
\* AgentScheduler._run_check: one instance at a time per scheduler entry
\* (APScheduler's default max_instances = 1)
\* ------------------------------------------------------------------------
\* job = await self.db.get_job(job_id)
T_GetJob ==
  /\ scheduled
  /\ tpc = "idle"
  /\ snap' = [status |-> status, attempts |-> attempts]
  /\ tpc' = "check"
  /\ UNCHANGED <<scheduled, active, runs, limited>>
  /\ UNCHANGED <<jobVars, callVars, cfgVars, handleVars, runVars, bookVars, fnVars, soloVars>>

\* `if attempts >= max_attempts`
LimitReached_OffByOneMutant(a) == a > MaxAttempts

LimitReached(a) == a >= MaxAttempts

\* the two early exits, decided on the row that was read
T_Check ==
  /\ tpc = "check"
  /\ IF snap.status \in TerminalStatuses
     THEN /\ scheduled' = FALSE
          /\ tpc' = "idle"
     ELSE /\ tpc' = IF LimitReached(snap.attempts) THEN "limit" ELSE "increment"
          /\ UNCHANGED scheduled
  /\ UNCHANGED <<active, snap, runs, limited>>
  /\ UNCHANGED <<jobVars, callVars, cfgVars, handleVars, runVars, bookVars, fnVars, soloVars>>

\* db.update_job(job_id, {"status": "failed"})
T_LimitUpdate ==
  /\ tpc = "limit"
  /\ status' = "failed"
  /\ limited' = TRUE
  /\ tpc' = "limit_remove"
  /\ UNCHANGED <<attempts, scheduled, active, snap, runs>>
  /\ UNCHANGED <<callVars, cfgVars, handleVars, runVars, bookVars, fnVars, soloVars>>

T_LimitRemove_KeepMutant ==
  /\ tpc = "limit_remove"
  /\ tpc' = "idle"
  /\ UNCHANGED <<scheduled, active, snap, runs, limited>>
  /\ UNCHANGED <<jobVars, callVars, cfgVars, handleVars, runVars, bookVars, fnVars, soloVars>>

\* scheduler.remove_job after the log and the broadcast
T_LimitRemove ==
  /\ tpc = "limit_remove"
  /\ scheduled' = FALSE
  /\ tpc' = "idle"
  /\ UNCHANGED <<active, snap, runs, limited>>
  /\ UNCHANGED <<jobVars, callVars, cfgVars, handleVars, runVars, bookVars, fnVars, soloVars>>

\* "attempts": attempts + 1
NextAttempts_SameMutant(a) == a

NextAttempts(a) == a + 1

\* db.update_job(job_id, {"status": "monitoring", "attempts": attempts + 1})
T_Increment ==
  /\ tpc = "increment"
  /\ status' = "monitoring"
  /\ attempts' = NextAttempts(snap.attempts)
  /\ tpc' = "launch"
  /\ UNCHANGED <<scheduled, active, snap, runs, limited>>
  /\ UNCHANGED <<callVars, cfgVars, handleVars, runVars, bookVars, fnVars, soloVars>>

\* engine = BookingEngine(...); self._active_engines[job_id] = engine;
\* run_check_and_book starts
T_StartEngine ==
  /\ tpc = "launch"
  /\ active' = TRUE
  /\ runs' = runs + 1
  /\ tpc' = "engine"
  /\ pw' = FALSE /\ browser' = FALSE /\ context' = FALSE /\ page' = FALSE
  /\ rpc' = "setup_pw" /\ invoked' = <<>> /\ failed' = "none"
  /\ result' = NoResult /\ cleaned' = FALSE
  /\ candidates' = <<>> /\ idx' = 0 /\ attempted' = <<>> /\ outcome' = <<>>
  /\ prevClicks' = 0 /\ confirmClicks' = 0 /\ bookLevels' = {}
  /\ booked' = "none" /\ endReason' = "none" /\ finalContent' = <<>>
  /\ stubFault' = FALSE
  /\ UNCHANGED <<scheduled, snap, limited>>
  /\ UNCHANGED <<jobVars, callVars, cfgVars, fnVars, soloVars>>

MappedStatus_AlwaysBookedMutant(res) == "booked"

\* the status the caller derives from the run's return value
MappedStatus(res) ==
  IF res.booking_confirmed THEN "booked" ELSE "appointment_found"

\* `if result:` db.update_job(job_id, {"status": status, ...})
T_MapResult ==
  /\ tpc = "engine"
  /\ rpc = "returned"
  /\ IF result.some
     THEN /\ status' = MappedStatus(result)
          /\ tpc' = IF result.booking_confirmed THEN "deregister" ELSE "finally"
     ELSE /\ tpc' = "finally"
          /\ UNCHANGED status
  /\ UNCHANGED <<attempts, scheduled, active, snap, runs, limited>>
  /\ UNCHANGED <<callVars, cfgVars, handleVars, runVars, bookVars, fnVars, soloVars>>

\* `if confirmed:` scheduler.remove_job
T_Deregister ==
  /\ tpc = "deregister"
  /\ scheduled' = FALSE
  /\ tpc' = "finally"
  /\ UNCHANGED <<active, snap, runs, limited>>
  /\ UNCHANGED <<jobVars, callVars, cfgVars, handleVars, runVars, bookVars, fnVars, soloVars>>

\* `finally: self._active_engines.pop(job_id, None)`
T_Finally ==
  /\ tpc = "finally"
  /\ active' = FALSE
  /\ tpc' = "idle"
  /\ rpc' = "idle"
  /\ UNCHANGED <<scheduled, snap, runs, limited>>
  /\ UNCHANGED <<invoked, failed, result, cleaned>>
  /\ UNCHANGED <<jobVars, callVars, cfgVars, handleVars, bookVars, fnVars, soloVars>>

\* ------------------------------------------------------------------------
\* AgentScheduler.stop_job (DELETE /jobs/{id}: any existing job)
\* ------------------------------------------------------------------------
\* scheduler.remove_job; engine = self._active_engines.pop(job_id, None)
S_Remove ==
  /\ spc = "idle"
  /\ stops < MaxStops
  /\ stops' = stops + 1
  /\ scheduled' = FALSE
  /\ active' = FALSE
  /\ popped' = active
  /\ spc' = IF active THEN "cl_page" ELSE "update"
  /\ UNCHANGED <<tpc, snap, runs, limited, jpc>>
  /\ UNCHANGED <<jobVars, cfgVars, handleVars, runVars, bookVars, fnVars, soloVars>>

\* `if engine: await engine.cleanup()`
S_CleanupPage ==
  /\ spc = "cl_page"
  /\ CleanupPage
  /\ spc' = "cl_context"
  /\ UNCHANGED <<jpc, stops, popped>>
  /\ UNCHANGED <<jobVars, tickVars, cfgVars, runVars, bookVars, fnVars, soloVars>>

S_CleanupContext ==
  /\ spc = "cl_context"
  /\ CleanupContext
  /\ spc' = "cl_browser"
  /\ UNCHANGED <<jpc, stops, popped>>
  /\ UNCHANGED <<jobVars, tickVars, cfgVars, runVars, bookVars, fnVars, soloVars>>

S_CleanupBrowser ==
  /\ spc = "cl_browser"
  /\ CleanupBrowser
  /\ spc' = "cl_playwright"
  /\ UNCHANGED <<jpc, stops, popped>>
  /\ UNCHANGED <<jobVars, tickVars, cfgVars, runVars, bookVars, fnVars, soloVars>>

S_CleanupPlaywright ==
  /\ spc = "cl_playwright"
  /\ CleanupPlaywright
  /\ spc' = "update"
  /\ UNCHANGED <<jpc, stops, popped>>
  /\ UNCHANGED <<jobVars, tickVars, cfgVars, runVars, bookVars, fnVars, soloVars>>

\* db.update_job(job_id, {"status": "stopped"})
S_Update ==
  /\ spc = "update"
  /\ status' = "stopped"
  /\ popped' = FALSE
  /\ spc' = "idle"
  /\ UNCHANGED <<attempts, jpc, stops>>
  /\ UNCHANGED <<tickVars, cfgVars, handleVars, runVars, bookVars, fnVars, soloVars>>

\* ------------------------------------------------------------------------
\* Specification of the scheduler with its engine runs
\* ------------------------------------------------------------------------
Next ==
  \/ J_StartUpdate \/ J_StartRegister
  \/ T_GetJob \/ T_Check \/ T_LimitUpdate \/ T_LimitRemove \/ T_Increment
  \/ T_StartEngine \/ T_MapResult \/ T_Deregister \/ T_Finally
  \/ S_Remove \/ S_CleanupPage \/ S_CleanupContext \/ S_CleanupBrowser
  \/ S_CleanupPlaywright \/ S_Update
  \/ R_SetupPlaywright \/ R_LaunchCall \/ R_LaunchReturn \/ R_ContextCall
  \/ R_ContextReturn \/ R_PageCall \/ R_PageReturn
  \/ R_Navigate \/ R_Login \/ R_Otp \/ R_Service \/ R_Location \/ R_Slots
  \/ R_Rank \/ R_Booked \/ R_Except
  \/ R_CleanupPage \/ R_CleanupContext \/ R_CleanupBrowser \/ R_CleanupPlaywright
  \/ B_Start \/ B_Loop \/ B_Back \/ B_Date \/ B_DateRetry
  \/ B_NextAfterDate \/ B_TimeStep \/ B_TimeSlot \/ B_NextAfterTime
  \/ B_ConfirmStep \/ B_Confirm \/ B_Content \/ B_Except

Spec == Init /\ [][Next]_vars

\* ------------------------------------------------------------------------
\* Specification of _build_candidate_dates on its own: every target and
\* every list of available dates (with empty entries and repeats) up to
\* MaxAvail, and lists of distinct dates long enough to reach the cap
\* ------------------------------------------------------------------------
LongDates(n) == [i \in 1..n |-> <<1 + ((i - 1) \div 28), 1 + ((i - 1) % 28), 2027>>]

LongLists == { LongDates(n) : n \in (CandidateCap - 2)..MaxLong }

FnTargets == DateUniverse \cup {NoDate, <<1, 5, 2027>>}

FnAvailLists == SeqsUpTo(DateUniverse \cup {NoDate}, MaxAvail) \cup LongLists

InitBuild ==
  /\ status = "pending" /\ attempts = 0
  /\ scheduled = FALSE /\ active = FALSE /\ tpc = "idle"
  /\ snap = [status |-> "pending", attempts |-> 0]
  /\ runs = 0 /\ limited = FALSE
  /\ jpc = "idle" /\ spc = "idle" /\ stops = 0 /\ popped = FALSE
  /\ priority = "any"
  /\ auto_book = TRUE
  /\ EngineFresh
  /\ fnTarget \in FnTargets
  /\ fnAvail \in FnAvailLists
  /\ fnOut = <<>>
  /\ fnDone = FALSE
  /\ SessIdle /\ EmitIdle /\ OtpIdle /\ LateIdle

F_Build ==
  /\ ~fnDone
  /\ fnOut' = build_candidate_dates(fnTarget, fnAvail)
  /\ fnDone' = TRUE
  /\ UNCHANGED <<fnTarget, fnAvail>>
  /\ UNCHANGED <<jobVars, tickVars, callVars, cfgVars, handleVars, runVars, bookVars>>
  /\ UNCHANGED soloVars

NextBuild == F_Build

SpecBuild == InitBuild /\ [][NextBuild]_vars

\* ------------------------------------------------------------------------
\* Specification of the engines of one job on their own: the executor may
\* hold several _run_check instances of the job, each with its own engine;
\* start_job may be called again for a job that is already scheduled.  The
\* attempts counter and the steps of a run are those of Spec and are left
\* out here.
\* ------------------------------------------------------------------------
Running == { i \in Instances : xInst[i] # "idle" }

\* the executor accepts a run of the job only below max_instances
CanSubmit_NoLimitMutant == TRUE

CanSubmit == Cardinality(Running) < MaxInstances

SetInst(i, pc) == xInst' = [xInst EXCEPT ![i] = pc]

InitSessions ==
  /\ EngineIdle /\ FnIdle /\ EmitIdle /\ OtpIdle /\ LateIdle
  /\ SessIdle

\* start_job: db.update_job(job_id, {"status": "running"})
X_StartUpdate ==
  /\ xJpc = "idle"
  /\ xStarts < MaxCalls
  /\ xStarts' = xStarts + 1
  /\ xStatus' = "running"
  /\ xJpc' = "register"
  /\ UNCHANGED <<xScheduled, xInst, xLive, xActive, xSpc, xPopped, xStops>>
  /\ UNCHANGED <<xConfirms, xIssued>>
  /\ UNCHANGED <<mainVars, emitVars, otpVars, lateVars>>

\* start_job: scheduler.add_job(..., id, replace_existing=True)
X_StartRegister ==
  /\ xJpc = "register"
  /\ xScheduled' = TRUE
  /\ xJpc' = "idle"
  /\ UNCHANGED <<xStatus, xInst, xLive, xActive, xSpc, xPopped, xStarts, xStops>>
  /\ UNCHANGED <<xConfirms, xIssued>>
  /\ UNCHANGED <<mainVars, emitVars, otpVars, lateVars>>

\* the trigger fires and the executor starts _run_check: db.get_job
X_Submit(i) ==
  /\ xScheduled
  /\ CanSubmit
  /\ xInst[i] = "idle"
  /\ SetInst(i, "check")
  /\ UNCHANGED <<xScheduled, xStatus, xLive, xActive, xJpc, xSpc, xPopped,
                 xStarts, xStops>>
  /\ UNCHANGED <<xConfirms, xIssued>>
  /\ UNCHANGED <<mainVars, emitVars, otpVars, lateVars>>

\* the row is read; a terminal status removes the job and ends the tick
X_Check(i) ==
  /\ xInst[i] = "check"
  /\ IF xStatus \in TerminalStatuses
     THEN /\ xScheduled' = FALSE
          /\ SetInst(i, "idle")
     ELSE /\ SetInst(i, "increment")
          /\ UNCHANGED xScheduled
  /\ UNCHANGED <<xStatus, xLive, xActive, xJpc, xSpc, xPopped, xStarts, xStops>>
  /\ UNCHANGED <<xConfirms, xIssued>>
  /\ UNCHANGED <<mainVars, emitVars, otpVars, lateVars>>

\* db.update_job(job_id, {"status": "monitoring", ...})
X_Increment(i) ==
  /\ xInst[i] = "increment"
  /\ xStatus' = "monitoring"
  /\ SetInst(i, "launch")
  /\ UNCHANGED <<xScheduled, xLive, xActive, xJpc, xSpc, xPopped, xStarts, xStops>>
  /\ UNCHANGED <<xConfirms, xIssued>>
  /\ UNCHANGED <<mainVars, emitVars, otpVars, lateVars>>

\* engine = BookingEngine(...); self._active_engines[job_id] = engine
X_Launch(i) ==
  /\ xInst[i] = "launch"
  /\ xActive' = i
  /\ SetInst(i, "setup")
  /\ UNCHANGED <<xScheduled, xStatus, xLive, xJpc, xSpc, xPopped, xStarts, xStops>>
  /\ UNCHANGED <<xConfirms, xIssued>>
  /\ UNCHANGED <<mainVars, emitVars, otpVars, lateVars>>

\* setup_browser: the session is live, or a call raised
X_Setup(i) ==
  /\ xInst[i] = "setup"
  /\ \/ /\ xLive' = [xLive EXCEPT ![i] = TRUE]
        /\ SetInst(i, "steps")
     \/ /\ SetInst(i, "cleanup")
        /\ UNCHANGED xLive
  /\ UNCHANGED <<xScheduled, xStatus, xActive, xJpc, xSpc, xPopped, xStarts, xStops>>
  /\ UNCHANGED <<xConfirms, xIssued>>
  /\ UNCHANGED <<mainVars, emitVars, otpVars, lateVars>>

\* the steps of the run, up to its finally clause; a run on a live page
\* may reach step 5 of auto_book_slot and issue the Confirm action
X_Steps(i) ==
  /\ xInst[i] = "steps"
  /\ \E issued \in (IF xLive[i] /\ xConfirms < MaxConfirms THEN BOOLEAN ELSE {FALSE}) :
       /\ xIssued' = [xIssued EXCEPT ![i] = issued]
       /\ xConfirms' = IF issued THEN xConfirms + 1 ELSE xConfirms
  /\ SetInst(i, "cleanup")
  /\ UNCHANGED <<xScheduled, xStatus, xLive, xActive, xJpc, xSpc, xPopped,
                 xStarts, xStops>>
  /\ UNCHANGED <<mainVars, emitVars, otpVars, lateVars>>

\* `finally: await self.cleanup()` of run_check_and_book
X_Cleanup(i) ==
  /\ xInst[i] = "cleanup"
  /\ xLive' = [xLive EXCEPT ![i] = FALSE]
  /\ SetInst(i, "map")
  /\ UNCHANGED <<xScheduled, xStatus, xActive, xJpc, xSpc, xPopped, xStarts, xStops>>
  /\ UNCHANGED <<xConfirms, xIssued>>
  /\ UNCHANGED <<mainVars, emitVars, otpVars, lateVars>>

\* the result is mapped to a status; a confirmed booking removes the job.
\* A run that issued Confirm returns its appointments, booking_confirmed or
\* not; a run that did not returns None or appointments not confirmed
X_Map(i) ==
  /\ xInst[i] = "map"
  /\ \E res \in (IF xIssued[i] THEN {"found", "booked"} ELSE {"none", "found"}) :
       /\ xStatus' = CASE res = "none"   -> xStatus
                       [] res = "found"  -> "appointment_found"
                       [] res = "booked" -> "booked"
       /\ xScheduled' = IF res = "booked" THEN FALSE ELSE xScheduled
  /\ xIssued' = [xIssued EXCEPT ![i] = FALSE]
  /\ SetInst(i, "finally")
  /\ UNCHANGED <<xLive, xActive, xJpc, xSpc, xPopped, xStarts, xStops, xConfirms>>
  /\ UNCHANGED <<mainVars, emitVars, otpVars, lateVars>>

\* `finally: self._active_engines.pop(job_id, None)`
X_Finally(i) ==
  /\ xInst[i] = "finally"
  /\ xActive' = 0
  /\ SetInst(i, "idle")
  /\ UNCHANGED <<xScheduled, xStatus, xLive, xJpc, xSpc, xPopped, xStarts, xStops>>
  /\ UNCHANGED <<xConfirms, xIssued>>
  /\ UNCHANGED <<mainVars, emitVars, otpVars, lateVars>>

\* stop_job: scheduler.remove_job; engine = self._active_engines.pop(...)
X_StopRemove ==
  /\ xSpc = "idle"
  /\ xStops < MaxCalls
  /\ xStops' = xStops + 1
  /\ xScheduled' = FALSE
  /\ xPopped' = xActive
  /\ xActive' = 0
  /\ xSpc' = IF xActive # 0 THEN "cleanup" ELSE "update"
  /\ UNCHANGED <<xStatus, xInst, xLive, xJpc, xStarts>>
  /\ UNCHANGED <<xConfirms, xIssued>>
  /\ UNCHANGED <<mainVars, emitVars, otpVars, lateVars>>

\* stop_job: `if engine: await engine.cleanup()`
X_StopCleanup ==
  /\ xSpc = "cleanup"
  /\ xLive' = [xLive EXCEPT ![xPopped] = FALSE]
  /\ xSpc' = "update"
  /\ UNCHANGED <<xScheduled, xStatus, xInst, xActive, xJpc, xPopped, xStarts, xStops>>
  /\ UNCHANGED <<xConfirms, xIssued>>
  /\ UNCHANGED <<mainVars, emitVars, otpVars, lateVars>>

\* stop_job: db.update_job(job_id, {"status": "stopped"})
X_StopUpdate ==
  /\ xSpc = "update"
  /\ xStatus' = "stopped"
  /\ xPopped' = 0
  /\ xSpc' = "idle"
  /\ UNCHANGED <<xScheduled, xInst, xLive, xActive, xJpc, xStarts, xStops>>
  /\ UNCHANGED <<xConfirms, xIssued>>
  /\ UNCHANGED <<mainVars, emitVars, otpVars, lateVars>>

NextSessions ==
  \/ X_StartUpdate \/ X_StartRegister
  \/ X_StopRemove \/ X_StopCleanup \/ X_StopUpdate
  \/ \E i \in Instances :
       \/ X_Submit(i) \/ X_Check(i) \/ X_Increment(i) \/ X_Launch(i)
       \/ X_Setup(i) \/ X_Steps(i) \/ X_Cleanup(i) \/ X_Map(i) \/ X_Finally(i)

SpecSessions == InitSessions /\ [][NextSessions]_vars

\* ------------------------------------------------------------------------
\* Specification of one run of run_check_and_book with its status events.
\* What the site does is fixed by a scenario: every step succeeds up to
\* scn.step, which ends as scn.how says.  The run is written as the list
\* of its operations: _emit calls, browser calls, explicit screenshots
\* (`ss = await self._save_screenshot(..)`), self.page being set, self.page
\* being closed by a concurrent cleanup, and the return.  The trace
\* screenshots of _capture_step are left out.
\* ------------------------------------------------------------------------
EmitOp(level) == [op |-> "emit", arg |-> level, ss |-> FALSE]

\* self._emit(level, message, ss)
EmitSs(level) == [op |-> "emit", arg |-> level, ss |-> TRUE]

ActOp(name) == [op |-> "act", arg |-> name, ss |-> FALSE]

ShotOp == [op |-> "shot", arg |-> "", ss |-> FALSE]

OpenOp == [op |-> "open", arg |-> "", ss |-> FALSE]

CloseOp == [op |-> "close", arg |-> "", ss |-> FALSE]

RetOp(value) == [op |-> "ret", arg |-> value, ss |-> FALSE]

\* _click_button_by_text: "Clicking button", click, "Clicked button"
ClickByText(name) == << EmitOp("info"), ActOp(name), EmitOp("info") >>

setup_browser(how) ==
  IF how = "ok"
  THEN << EmitOp("info"), ActOp("start"), ActOp("launch"), ActOp("new_context"),
          ActOp("new_page"), OpenOp, EmitOp("success") >>
  ELSE << EmitOp("info"), ActOp("start"), ActOp("launch") >>

navigate_to_scheduler(how) ==
  CASE how = "ok" ->
         << EmitOp("info"), ActOp("goto"), ActOp("wait_english"),
            ActOp("click_english"), EmitOp("success"), ActOp("wait_load") >>
    [] how = "timeout" ->
         << EmitOp("info"), ActOp("goto"), ShotOp, EmitSs("error") >>
    [] how = "raise" ->
         << EmitOp("info"), ActOp("goto"), EmitOp("error") >>
    [] how = "closed" ->
         << EmitOp("info"), CloseOp, ActOp("goto"), EmitOp("error") >>
    [] how = "no_page" -> << >>

fill_login_form(how) ==
  CASE how = "ok" ->
         << EmitOp("info"), EmitOp("info"), ActOp("wait_form"), ActOp("fill_field"),
            EmitOp("info"), ActOp("check_email_radio"), EmitOp("info"),
            EmitOp("success") >>
         \o ClickByText("click_log_on")
         \o << EmitOp("info"), ActOp("wait_load") >>
    [] how \in {"timeout", "raise"} ->
         << EmitOp("info"), EmitOp("info"), ActOp("wait_form"), ShotOp,
            EmitSs("error") >>
    [] how = "no_page" -> << >>

handle_otp(how) ==
  CASE how = "ok" ->
         << EmitOp("info"), ActOp("wait_target"), ActOp("count_new_appointment"),
            EmitOp("info") >>
    [] how = "no_code" ->
         << EmitOp("info"), ActOp("wait_target"), ActOp("count_new_appointment"),
            ActOp("count_header"), EmitOp("info"), ActOp("otp_field_visible"),
            EmitOp("info"), EmitOp("warning"), ActOp("wait_new_appointment"),
            ShotOp, EmitSs("error") >>
    [] how = "raise" ->
         << EmitOp("info"), ActOp("wait_target"), ActOp("count_new_appointment"),
            ShotOp, EmitSs("error") >>
    [] how = "no_page" -> << >>

select_service_type(how) ==
  CASE how = "ok" ->
         << EmitOp("info"), ActOp("click_new_appointment"), EmitOp("info"),
            ActOp("click_service"), EmitOp("success") >>
    [] how = "fail" ->
         << EmitOp("info"), ActOp("click_new_appointment"), EmitOp("info"),
            ActOp("query_buttons"), EmitOp("warning"), ShotOp, EmitSs("error") >>
    [] how = "raise" ->
         << EmitOp("info"), ActOp("click_new_appointment"), ShotOp,
            EmitSs("error") >>
    [] how = "no_page" -> << >>

\* _fill_customer_details_required_fields; fill = "raises": the first
\* locator of the Cell Phone field raises inside _fill, the others of that
\* field are not found
fill_customer_details(fill) ==
  << EmitOp("info") >>
  \o (IF fill = "ok"
      THEN << ActOp("fill_cell"), EmitOp("success") >>
      ELSE << ActOp("fill_cell"), EmitOp("debug"), EmitOp("warning") >>)
  \o << ActOp("fill_email"), EmitOp("success"),
        ActOp("fill_verify_email"), EmitOp("success") >>

search_location(how, fill) ==
  IF how = "no_page" THEN << >>
  ELSE << EmitOp("info") >> \o fill_customer_details(fill)
       \o << EmitOp("info"), ActOp("wait_zip") >>
       \o CASE how = "ok" ->
                 << ActOp("fill_zip"), ActOp("click_next"), EmitOp("info"),
                    ActOp("wait_load"), EmitOp("success") >>
            [] how = "timeout" -> << ShotOp, EmitSs("error") >>
            [] how = "raise" -> << EmitOp("error") >>

get_available_appointments(how) ==
  CASE how = "ok" ->
         << EmitOp("info"), ActOp("read_body"), ActOp("read_date_cards"),
            EmitOp("success") >>
    [] how = "none" ->
         << EmitOp("info"), ActOp("read_body"), ActOp("read_date_cards"),
            EmitOp("info") >>
    [] how = "raise" ->
         << EmitOp("info"), ActOp("read_body"), ShotOp, EmitSs("error") >>
    [] how = "no_page" -> << >>

\* auto_book_slot with one candidate date
auto_book_slot(how) ==
  LET upToTime == << EmitOp("info"), EmitOp("info"), EmitOp("info"),
                     ActOp("click_date"), EmitOp("info"),
                     ActOp("click_next"), EmitOp("info"),
                     ActOp("probe_time_step"), ActOp("click_time_slot") >>
      upToConfirm == upToTime
                     \o << EmitOp("success"), ActOp("click_next"), EmitOp("info"),
                           ActOp("probe_confirm_step"), ActOp("click_confirm"),
                           EmitOp("info"), ShotOp, ActOp("content") >>
  IN  CASE how = "confirmed"   -> upToConfirm \o << EmitSs("success") >>
        [] how = "unconfirmed" -> upToConfirm \o << EmitSs("warning") >>
        [] how = "exhausted"   ->
             upToTime \o << EmitOp("warning"), EmitOp("warning"), ShotOp >>
        [] how = "raise" ->
             << EmitOp("info"), EmitOp("info"), EmitOp("info"),
                ActOp("click_date"), EmitOp("info"), ActOp("click_next"),
                ShotOp, EmitSs("error") >>
        [] how = "no_page" -> << >>

\* cleanup with its closing event
cleanup == << ActOp("close_all"), CloseOp, EmitOp("info") >>

StepScript(step, how, fill) ==
  CASE step = "navigate" -> navigate_to_scheduler(how)
    [] step = "login"    -> fill_login_form(how)
    [] step = "otp"      -> handle_otp(how)
    [] step = "service"  -> select_service_type(how)
    [] step = "location" -> search_location(how, fill)
    [] step = "slots"    -> get_available_appointments(how)
    [] step = "book"     -> auto_book_slot(how)

\* what run_check_and_book does once the step scn.step has ended
AfterStep(scn) ==
  CASE scn.step = "slots" ->
         << EmitOp("info") >> \o cleanup \o << RetOp("none") >>
    [] scn.step = "book" ->
         << EmitOp(IF scn.how = "confirmed" THEN "success" ELSE "warning") >>
         \o cleanup
         \o << RetOp(IF scn.how = "confirmed" THEN "booked" ELSE "found") >>
    [] OTHER -> cleanup \o << RetOp("none") >>

RECURSIVE StepsFrom(_, _)
StepsFrom(scn, i) ==
  IF StepOrder[i] = scn.step
  THEN (IF scn.how = "no_page" THEN << CloseOp >> ELSE << >>)
       \o StepScript(scn.step, scn.how, scn.fill)
       \o AfterStep(scn)
  ELSE StepScript(StepOrder[i], "ok", scn.fill)
       \o (IF StepOrder[i] = "slots" THEN << EmitOp("info") >> ELSE << >>)
       \o StepsFrom(scn, i + 1)

\* run_check_and_book as the list of its operations
run_check_and_book(scn) ==
  << EmitOp("info"), EmitOp("info") >>
  \o (IF scn.step = "setup"
      THEN setup_browser("raise") \o << ShotOp, EmitSs("error") >>
           \o cleanup \o << RetOp("none") >>
      ELSE setup_browser("ok") \o StepsFrom(scn, 1))

\* the ways a step can end other than by succeeding
StepEndings ==
  { <<"setup", "raise">>,
    <<"navigate", "timeout">>, <<"navigate", "raise">>, <<"navigate", "closed">>,
    <<"navigate", "no_page">>,
    <<"login", "timeout">>, <<"login", "raise">>, <<"login", "no_page">>,
    <<"otp", "no_code">>, <<"otp", "raise">>, <<"otp", "no_page">>,
    <<"service", "fail">>, <<"service", "raise">>, <<"service", "no_page">>,
    <<"location", "timeout">>, <<"location", "raise">>, <<"location", "no_page">>,
    <<"slots", "none">>, <<"slots", "raise">>, <<"slots", "no_page">>,
    <<"book", "confirmed">>, <<"book", "unconfirmed">>, <<"book", "exhausted">>,
    <<"book", "raise">>, <<"book", "no_page">> }

\* the customer details are filled only in runs that get to search_location
ReachesLocation(step) == step \in {"location", "slots", "book"}

Scenarios ==
  { [step |-> e[1], how |-> e[2], fill |-> f, shots |-> s] :
      e \in StepEndings, f \in {"ok", "raises"}, s \in BOOLEAN }

InitEmit ==
  /\ EngineIdle /\ FnIdle /\ SessIdle /\ OtpIdle /\ LateIdle
  /\ eScn \in { scn \in Scenarios : ReachesLocation(scn.step) \/ scn.fill = "ok" }
  /\ eRun = 1 /\ ePos = 1 /\ ePage = FALSE /\ eSs = FALSE
  /\ eEvents = {} /\ eActs = <<>> /\ eRet = "pending" /\ eFirst = NoOutcome
  /\ eRaised = FALSE

CurOp == run_check_and_book(eScn)[ePos]

AtOp(kind) == ePos > 0 /\ CurOp.op = kind

\* the status sink of the first run may raise, that of the second never
SinkRaises == IF eRun = 1 THEN BOOLEAN ELSE {FALSE}

\* what _emit does when the sink raised: the exception is logged
EmitThen_PropagateMutant(sinkRaised) == IF sinkRaised THEN "raise" ELSE "continue"

EmitThen(sinkRaised) == "continue"

\* _emit: trace screenshot when no path was passed and the page is there,
\* then the sink
E_Emit ==
  /\ AtOp("emit")
  /\ LET given == CurOp.ss /\ eSs
         auto  == ~given /\ ePage
     IN  /\ eActs' = IF auto THEN Append(eActs, "screenshot") ELSE eActs
         /\ eEvents' = eEvents \cup
              { [level |-> CurOp.arg, shot |-> (given \/ (auto /\ eScn.shots))] }
  /\ \E sinkRaised \in SinkRaises :
       /\ eRaised' = (eRaised \/ sinkRaised)
       /\ IF EmitThen(sinkRaised) = "continue"
          THEN ePos' = ePos + 1 /\ UNCHANGED eRet
          ELSE ePos' = 0 /\ eRet' = "raised"
  /\ UNCHANGED <<eScn, eRun, ePage, eSs, eFirst>>
  /\ UNCHANGED <<mainVars, sessVars, otpVars, lateVars>>

\* a call of the browser automation capability
E_Act ==
  /\ AtOp("act")
  /\ eActs' = Append(eActs, CurOp.arg)
  /\ ePos' = ePos + 1
  /\ UNCHANGED <<eScn, eRun, ePage, eSs, eEvents, eRet, eFirst, eRaised>>
  /\ UNCHANGED <<mainVars, sessVars, otpVars, lateVars>>

\* ss = await self._save_screenshot(name): the path, None when
\* page.screenshot raised; without a page the path of no file
E_Shot ==
  /\ AtOp("shot")
  /\ eActs' = IF ePage THEN Append(eActs, "screenshot") ELSE eActs
  /\ eSs' = IF ePage THEN eScn.shots ELSE TRUE
  /\ ePos' = ePos + 1
  /\ UNCHANGED <<eScn, eRun, ePage, eEvents, eRet, eFirst, eRaised>>
  /\ UNCHANGED <<mainVars, sessVars, otpVars, lateVars>>

\* self.page is set by setup_browser, set to None by a cleanup
E_Page ==
  /\ AtOp("open") \/ AtOp("close")
  /\ ePage' = AtOp("open")
  /\ ePos' = ePos + 1
  /\ UNCHANGED <<eScn, eRun, eSs, eEvents, eActs, eRet, eFirst, eRaised>>
  /\ UNCHANGED <<mainVars, sessVars, otpVars, lateVars>>

E_Return ==
  /\ AtOp("ret")
  /\ eRet' = CurOp.arg
  /\ ePos' = 0
  /\ UNCHANGED <<eScn, eRun, ePage, eSs, eEvents, eActs, eFirst, eRaised>>
  /\ UNCHANGED <<mainVars, sessVars, otpVars, lateVars>>

\* the same scenario once more, with a sink that does not fail
E_Second ==
  /\ eRun = 1 /\ ePos = 0 /\ eRet # "pending"
  /\ eFirst' = [ret |-> eRet, acts |-> eActs]
  /\ eRun' = 2 /\ ePos' = 1 /\ ePage' = FALSE /\ eSs' = FALSE
  /\ eEvents' = {} /\ eActs' = <<>> /\ eRet' = "pending"
  /\ UNCHANGED <<eScn, eRaised>>
  /\ UNCHANGED <<mainVars, sessVars, otpVars, lateVars>>

NextEmit == E_Emit \/ E_Act \/ E_Shot \/ E_Page \/ E_Return \/ E_Second

SpecEmit == InitEmit /\ [][NextEmit]_vars

\* ------------------------------------------------------------------------
\* get_otp_from_email(timeout=OtpTimeout, check_interval=CheckInterval) on
\* its own. Time is in whole seconds since start_time. A mailbox fetch
\* takes 0..MaxDelay seconds and yields a code, yields nothing, or raises;
\* asyncio.sleep(check_interval) returns after CheckInterval seconds, up
\* to MaxDelay seconds late.
\* ------------------------------------------------------------------------
FetchResults == {"code", "none", "raise"}

Delays == 0..MaxDelay

InitOtp ==
  /\ EngineIdle /\ FnIdle /\ SessIdle /\ EmitIdle /\ LateIdle
  /\ oPc = "head" /\ oNow = 0 /\ oFetches = 0 /\ oCodeAt = -1
  /\ oRaised = FALSE /\ oRet = "pending"

\* while time_module.time() - start_time < timeout:
LoopTest(elapsed) == elapsed < OtpTimeout

\* if otp:
Yields_NeverMutant(r) == FALSE

Yields(r) == r = "code"

\* the loop test; the fetch is handed to the executor when it passes,
\* `return None` follows the loop when it fails
O_Head ==
  /\ oPc = "head"
  /\ IF LoopTest(oNow)
       THEN /\ oPc' = "fetch"
            /\ oFetches' = oFetches + 1
            /\ oRet' = oRet
       ELSE /\ oPc' = "done"
            /\ oRet' = "none"
            /\ oFetches' = oFetches
  /\ UNCHANGED <<oNow, oCodeAt, oRaised>>
  /\ UNCHANGED <<mainVars, sessVars, emitVars, lateVars>>

\* otp = await loop.run_in_executor(None, self._fetch_latest_otp): a code
\* is returned at once, anything else, an exception included, leads to the
\* sleep
O_Fetch ==
  /\ oPc = "fetch"
  /\ \E d \in Delays, r \in FetchResults :
       /\ oNow' = oNow + d
       /\ oCodeAt' = IF r = "code" /\ oCodeAt = -1 THEN oNow + d ELSE oCodeAt
       /\ oRaised' = (oRaised \/ r = "raise")
       /\ IF Yields(r)
            THEN oPc' = "done" /\ oRet' = "code"
            ELSE oPc' = "sleep" /\ oRet' = oRet
  /\ UNCHANGED oFetches
  /\ UNCHANGED <<mainVars, sessVars, emitVars, lateVars>>

\* await asyncio.sleep(check_interval), in the try block and in the except
\* clause alike
O_Sleep ==
  /\ oPc = "sleep"
  /\ \E late \in Delays : oNow' = oNow + CheckInterval + late
  /\ oPc' = "head"
  /\ UNCHANGED <<oFetches, oCodeAt, oRaised, oRet>>
  /\ UNCHANGED <<mainVars, sessVars, emitVars, lateVars>>

NextOtp == O_Head \/ O_Fetch \/ O_Sleep

\* every fetch returns and every sleep ends
SpecOtp == InitOtp /\ [][NextOtp]_vars /\ WF_vars(NextOtp)

\* ------------------------------------------------------------------------
\* handle_otp on its own. hPage is what the site shows: "otp" the passcode
\* page, "options" the appointment-options page with its New Appointment
\* button, "other" neither; "closed": the handle was closed (every call on
\* it raises), "none": self.page is None. The site and a person at the
\* browser change the page while the step runs.
\* ------------------------------------------------------------------------
\* "service": the service catalog, "details": the Customer Details step
Pages == {"none", "closed", "otp", "options", "service", "details", "other"}

InitHandleOtp ==
  /\ EarlyIdle /\ ServiceIdle /\ prevOffStep = FALSE
  /\ ExtractIdle /\ ClassifyIdle /\ RankIdle /\ CheckerIdle /\ UnitIdle
  /\ hPc = "entry" /\ hPage \in Pages /\ hField \in BOOLEAN
  /\ hMailbox = 0 /\ hRet = "pending"

HReturn(value) ==
  /\ hPc' = "done"
  /\ hRet' = value

HGoto(pc) ==
  /\ hPc' = pc
  /\ hRet' = hRet

\* the page loads, is advanced by hand, or is closed by a cleanup
H_PageChanges ==
  /\ hPc \notin {"idle", "done"}
  /\ \/ hPage = "other" /\ hPage' \in {"otp", "options"}
     \/ hPage = "otp" /\ hPage' = "options"
     \/ hPage \notin {"none", "closed"} /\ hPage' = "closed"
  /\ UNCHANGED <<hPc, hField, hMailbox, hRet>>
  /\ UNCHANGED hOthers

\* if not page: return False
H_Entry ==
  /\ hPc = "entry"
  /\ IF hPage = "none" THEN HReturn("failure") ELSE HGoto("wait")
  /\ UNCHANGED <<hPage, hField, hMailbox>>
  /\ UNCHANGED hOthers

\* target.wait_for(state='visible', timeout=15000), every exception dropped
H_Wait ==
  /\ hPc = "wait"
  /\ HGoto("advanced")
  /\ UNCHANGED <<hPage, hField, hMailbox>>
  /\ UNCHANGED hOthers

\* count() of the New Appointment buttons
H_Advanced ==
  /\ hPc = "advanced"
  /\ CASE hPage = "closed" -> HReturn("failure")
       [] hPage = "options" -> HReturn("success")
       [] OTHER -> HGoto("header")
  /\ UNCHANGED <<hPage, hField, hMailbox>>
  /\ UNCHANGED hOthers

\* count() of the One Time Passcode Verification header
H_Header ==
  /\ hPc = "header"
  /\ CASE hPage = "closed" -> HReturn("failure")
       [] hPage = "otp" -> HGoto("field")
       [] OTHER -> HReturn("success")
  /\ UNCHANGED <<hPage, hField, hMailbox>>
  /\ UNCHANGED hOthers

\* otp_field.is_visible(); on a page that left the passcode step in the
\* meantime the first input may or may not be visible
H_Field ==
  /\ hPc = "field"
  /\ IF hPage = "closed" THEN HReturn("failure")
     ELSE \E visible \in (IF hPage = "otp" THEN {hField} ELSE BOOLEAN) :
            IF visible THEN HGoto("retrieve") ELSE HReturn("success")
  /\ UNCHANGED <<hPage, hField, hMailbox>>
  /\ UNCHANGED hOthers

\* otp_code = await otp_handler.get_otp_from_email(...)
H_Retrieve ==
  /\ hPc = "retrieve"
  /\ hMailbox' = hMailbox + 1
  /\ \E code \in {"none", "code"} :
       HGoto(IF code = "none" THEN "extra" ELSE "fill")
  /\ UNCHANGED <<hPage, hField>>
  /\ UNCHANGED hOthers

\* wait_for_selector(New Appointment, timeout=30000) returned / raised
ExtraWaitResult_AlwaysSuccessMutant(advanced) == "success"

ExtraWaitResult(advanced) == IF advanced THEN "success" ELSE "failure"

\* the bounded extra wait after a retrieval without a code: the button
\* is there, appears within the wait, or does not
H_ExtraWait ==
  /\ hPc = "extra"
  /\ \/ /\ hPage = "options"
        /\ hPage' = hPage
     \/ /\ hPage \in {"otp", "other"}
        /\ hPage' \in {hPage, "options"}
     \/ /\ hPage \in {"closed", "service", "details"}
        /\ hPage' = hPage
  /\ HReturn(ExtraWaitResult(hPage' = "options"))
  /\ UNCHANGED <<hField, hMailbox>>
  /\ UNCHANGED hOthers

\* otp_field.click(), fill(""), type(otp_code): they raise when the field
\* is no longer there
H_Fill ==
  /\ hPc = "fill"
  /\ IF hPage = "otp" /\ hField THEN HGoto("verify") ELSE HReturn("failure")
  /\ UNCHANGED <<hPage, hField, hMailbox>>
  /\ UNCHANGED hOthers

\* self._click_button_by_text(['verify']), its result unused: the site
\* accepts the code or keeps the passcode page
H_Verify ==
  /\ hPc = "verify"
  /\ IF hPage = "closed"
       THEN hPage' = hPage /\ HReturn("failure")
       ELSE /\ hPage' \in (IF hPage = "otp" THEN {"otp", "options"} ELSE {hPage})
            /\ HGoto("load")
  /\ UNCHANGED <<hField, hMailbox>>
  /\ UNCHANGED hOthers

\* page.wait_for_load_state('networkidle'), PlaywrightTimeout dropped
H_Load ==
  /\ hPc = "load"
  /\ HReturn(IF hPage = "closed" THEN "failure" ELSE "success")
  /\ UNCHANGED <<hPage, hField, hMailbox>>
  /\ UNCHANGED hOthers

NextHandleOtp ==
  \/ H_PageChanges \/ H_Entry \/ H_Wait \/ H_Advanced \/ H_Header \/ H_Field
  \/ H_Retrieve \/ H_ExtraWait \/ H_Fill \/ H_Verify \/ H_Load


\* ------------------------------------------------------------------------
\* select_service_type, the step run_check_and_book enters when handle_otp
\* returned True. sLog lists the overlay dismissals ("dismiss"), the click
\* calls on New Appointment ("click") and on a service button
\* ("service_click") in the order they are made.
\* ------------------------------------------------------------------------
SReturn(value) ==
  /\ sPc' = "done"
  /\ sRet' = value

SGoto(pc) ==
  /\ sPc' = pc
  /\ sRet' = sRet

\* self._dismiss_blocking_dialogs(page): clicks the dialog's button when
\* it finds one; its exceptions are dropped
Dismiss ==
  /\ sOverlay' \in {sOverlay, FALSE}
  /\ sLog' = Append(sLog, "dismiss")

\* _is_on_service_selection_step / _is_on_customer_details_step: a marker
\* of the step is visible; False when the calls raise
OnServiceSelection == hPage = "service"

OnCustomerDetails == hPage = "details"

\* a dialog opens over the page, or the page is closed by a cleanup
S_PageChanges ==
  /\ sPc \notin {"idle", "done"}
  /\ \/ ~sOverlay /\ sOverlay' = TRUE /\ hPage' = hPage
     \/ hPage \notin {"none", "closed"} /\ hPage' = "closed" /\ sOverlay' = sOverlay
  /\ UNCHANGED <<sPc, sPass, sLog, sRet>>
  /\ UNCHANGED sOthers

\* if not page: return False; the first dismissal
S_Entry ==
  /\ sPc = "idle" /\ hPc = "done" /\ hRet = "success"
  /\ IF hPage = "none"
       THEN SReturn("failure") /\ UNCHANGED <<sOverlay, sLog>>
       ELSE SGoto("precheck") /\ Dismiss
  /\ UNCHANGED <<hPage, sPass>>
  /\ UNCHANGED sOthers

\* if not await self._is_on_service_selection_step(page):
S_Precheck ==
  /\ sPc = "precheck"
  /\ SGoto(IF OnServiceSelection THEN "select" ELSE "pass")
  /\ UNCHANGED <<hPage, sPass, sOverlay, sLog>>
  /\ UNCHANGED sOthers

\* for _ in range(3): the dismissal that opens a pass
S_Pass ==
  /\ sPc = "pass"
  /\ sPass' = sPass + 1
  /\ Dismiss
  /\ SGoto("role_click")
  /\ UNCHANGED hPage
  /\ UNCHANGED sOthers

\* new_appt.click(timeout=5000) on the button found by role: it times out
\* under a dialog; every exception leaves clicked False
S_RoleClick ==
  /\ sPc = "role_click"
  /\ IF hPage = "options"
       THEN /\ sLog' = Append(sLog, "click")
            /\ IF sOverlay
                 THEN hPage' = hPage /\ SGoto("text_click")
                 ELSE hPage' \in {"options", "service"} /\ SGoto("post")
       ELSE /\ sLog' = sLog /\ hPage' = hPage
            /\ SGoto("text_click")
  /\ UNCHANGED <<sPass, sOverlay>>
  /\ UNCHANGED sOthers

\* if not clicked: self._click_button_by_text(["new appointment"]), a
\* click made by script that a dialog does not stop; query_selector_all
\* raises on a closed page
S_TextClick ==
  /\ sPc = "text_click"
  /\ CASE hPage = "closed" ->
            /\ SReturn("failure")
            /\ UNCHANGED <<hPage, sLog>>
       [] hPage = "options" ->
            /\ sLog' = Append(sLog, "click")
            /\ hPage' \in {"options", "service"}
            /\ SGoto("post")
       [] OTHER ->
            /\ SGoto("post")
            /\ UNCHANGED <<hPage, sLog>>
  /\ UNCHANGED <<sPass, sOverlay>>
  /\ UNCHANGED sOthers

\* the dismissal that closes a pass
S_Post ==
  /\ sPc = "post"
  /\ Dismiss
  /\ SGoto("check")
  /\ UNCHANGED <<hPage, sPass>>
  /\ UNCHANGED sOthers

\* range(3): another pass follows the passes made so far
MorePasses_OneMoreMutant(made) == made <= NewAppointmentPasses

MorePasses(made) == made < NewAppointmentPasses

\* if await self._is_on_service_selection_step(page): break; after the
\* last pass: return False when the catalog is still not there
S_Check ==
  /\ sPc = "check"
  /\ CASE OnServiceSelection -> SGoto("select")
       [] ~OnServiceSelection /\ MorePasses(sPass) -> SGoto("pass")
       [] OTHER -> SReturn("failure")
  /\ UNCHANGED <<hPage, sPass, sOverlay, sLog>>
  /\ UNCHANGED sOthers

\* the service button: by role (a failing click is passed over), then by
\* keyword (a failing click ends the step), then Next on a page without
\* service buttons; at the end Customer Details counts as success
S_Select ==
  /\ sPc = "select"
  /\ Dismiss
  /\ CASE hPage = "closed" ->
            /\ SReturn("failure")
            /\ hPage' = hPage
       [] hPage = "service" /\ sOverlay ->
            /\ SReturn("failure")
            /\ hPage' = hPage
       [] hPage = "service" /\ ~sOverlay ->
            /\ SReturn("success")
            /\ hPage' \in {"service", "details"}
       [] hPage = "details" ->
            /\ SReturn("success")
            /\ hPage' = hPage
       [] OTHER ->
            /\ hPage' \in {hPage, "service", "details"}
            /\ SReturn(IF hPage' = hPage THEN "failure" ELSE "success")
  /\ UNCHANGED sPass
  /\ UNCHANGED sOthers

NextService ==
  \/ S_PageChanges \/ S_Entry \/ S_Precheck \/ S_Pass \/ S_RoleClick
  \/ S_TextClick \/ S_Post \/ S_Check \/ S_Select

\* steps 3 and 4 of one run
SpecSteps == InitHandleOtp /\ [][NextHandleOtp \/ NextService]_vars

\* ------------------------------------------------------------------------
\* OTPHandler._extract_otp_from_message on its own. The body is a sequence
\* of tokens: the keywords of the patterns, another word, a blank, a line
\* break, a colon, a markup tag, and maximal runs of 3 to 7 digits. A
\* capture names the run it lies in and the number of digits taken from
\* the start of that run.
\* ------------------------------------------------------------------------
Keywords == {"passcode", "code", "otp", "verification", "verify"}

DigitRuns == {"d3", "d4", "d5", "d6", "d7"}

Tokens == Keywords \cup DigitRuns \cup {"word", "sp", "nl", "colon", "tag"}

DigitLen(t) ==
  CASE t = "d3" -> 3 [] t = "d4" -> 4 [] t = "d5" -> 5 [] t = "d6" -> 6
    [] t = "d7" -> 7 [] OTHER -> 0

\* [:\s]
IsSep(t) == t \in {"sp", "nl", "colon"}

\* \w at the edge of the token
IsWord(t) == t \in Keywords \cup DigitRuns \cup {"word"}

Capture(i, n) == [at |-> i, len |-> n]

Least(S) == CHOOSE i \in S : \A j \in S : i <= j

RECURSIVE SkipSeps(_, _)
SkipSeps(body, j) ==
  IF j <= Len(body) /\ IsSep(body[j]) THEN SkipSeps(body, j + 1) ELSE j

\* re.search(r'<keyword>[:\s]+([0-9]{4,6})', body, re.IGNORECASE), for the
\* tokens the keyword occurs in
KeywordPattern(body, within) ==
  LET starts == { i \in 1..Len(body) :
                    /\ body[i] \in within
                    /\ SkipSeps(body, i + 1) > i + 1
                    /\ SkipSeps(body, i + 1) <= Len(body)
                    /\ DigitLen(body[SkipSeps(body, i + 1)]) >= 4 }
  IN  IF starts = {} THEN NoCapture
      ELSE LET j == SkipSeps(body, Least(starts) + 1)
           IN  Capture(j, IF DigitLen(body[j]) > 6 THEN 6 ELSE DigitLen(body[j]))

\* r'\b([0-9]{4,6})\b.*(?:passcode|code|otp|verify)': `.` stops at a line
\* break
TrailingKeywordPattern(body) ==
  LET starts == { i \in 1..Len(body) :
                    /\ DigitLen(body[i]) \in 4..6
                    /\ i = 1 \/ ~IsWord(body[i - 1])
                    /\ i = Len(body) \/ ~IsWord(body[i + 1])
                    /\ \E k \in (i + 1)..Len(body) :
                         /\ body[k] \in {"passcode", "code", "otp", "verify"}
                         /\ \A l \in (i + 1)..(k - 1) : body[l] # "nl" }
  IN  IF starts = {} THEN NoCapture
      ELSE Capture(Least(starts), DigitLen(body[Least(starts)]))

\* r'<[^>]*>([0-9]{4,6})<[^>]*>'
TagPattern(body) ==
  LET starts == { i \in 2..(Len(body) - 1) :
                    /\ DigitLen(body[i]) \in 4..6
                    /\ body[i - 1] = "tag" /\ body[i + 1] = "tag" }
  IN  IF starts = {} THEN NoCapture
      ELSE Capture(Least(starts), DigitLen(body[Least(starts)]))

\* r'([0-9]{6})'
FallbackPattern(body) ==
  LET starts == { i \in 1..Len(body) : DigitLen(body[i]) >= 6 }
  IN  IF starts = {} THEN NoCapture ELSE Capture(Least(starts), 6)

\* the patterns list, each applied to the body
PatternMatches(body) ==
  << KeywordPattern(body, {"passcode"}),
     KeywordPattern(body, {"passcode", "code"}),
     KeywordPattern(body, {"otp"}),
     KeywordPattern(body, {"verification"}),
     TrailingKeywordPattern(body),
     TagPattern(body),
     FallbackPattern(body) >>

\* for pattern in patterns: ... if match: return match.group(1)
RECURSIVE FirstMatch(_, _)
FirstMatch(matches, n) ==
  IF n > Len(matches) THEN NoCapture
  ELSE IF matches[n] # NoCapture THEN matches[n]
  ELSE FirstMatch(matches, n + 1)

extract_otp_from_message(body) == FirstMatch(PatternMatches(body), 1)

\* bodies without two digit runs side by side
Bodies ==
  { b \in SeqsUpTo(Tokens, MaxBody) :
      \A i \in 1..(Len(b) - 1) : ~(b[i] \in DigitRuns /\ b[i + 1] \in DigitRuns) }

InitExtract ==
  /\ EarlyIdle /\ StepsIdle /\ prevOffStep = FALSE /\ CheckerIdle /\ UnitIdle
  /\ ClassifyIdle /\ RankIdle
  /\ mBody \in Bodies /\ mOut = NoCapture /\ mDone = FALSE

M_Extract ==
  /\ ~mDone
  /\ mOut' = extract_otp_from_message(mBody)
  /\ mDone' = TRUE
  /\ UNCHANGED mBody
  /\ UNCHANGED mOthers

SpecExtract == InitExtract /\ [][M_Extract]_vars

\* ------------------------------------------------------------------------
\* DecisionEngine._determine_service on its own. Confidence in hundredths.
\* ------------------------------------------------------------------------
Verdict(service, confidence) == <<service, confidence>>

\* the keys of DPS_SERVICES
ServiceKeys ==
  {"first_time_dl", "renew_dl", "replace_dl", "transfer_oos", "cdl",
   "texas_id", "change_update", "permit"}

Under18_NeverMutant(age) == FALSE

Under18(age) == age.known /\ age.years < 18

determine_service_PermitFirstMutant(profile) ==
  IF profile.needs_permit \/ Under18(profile.age) THEN Verdict("permit", 95)
  ELSE IF profile.is_commercial THEN Verdict("cdl", 95)
  ELSE Verdict("first_time_dl", 90)

determine_service(profile) ==
  LET has_tx      == profile.has_texas_license
      has_oos     == profile.has_out_of_state_license
      expired     == profile.license_expired
      lost_stolen == profile.license_lost_stolen
      age         == profile.age
  IN  IF profile.is_commercial THEN Verdict("cdl", 95)
      ELSE IF profile.id_only THEN Verdict("texas_id", 95)
      ELSE IF profile.needs_permit \/ Under18(age) THEN Verdict("permit", 95)
      ELSE IF has_tx /\ lost_stolen THEN Verdict("replace_dl", 95)
      ELSE IF has_tx /\ expired THEN Verdict("renew_dl", 95)
      ELSE IF has_oos /\ ~has_tx THEN Verdict("transfer_oos", 90)
      ELSE IF has_tx /\ ~expired /\ ~lost_stolen THEN Verdict("change_update", 70)
      ELSE IF ~has_tx /\ ~has_oos
           THEN IF age.known /\ ~(age.years >= 18)
                THEN Verdict("permit", 85)
                ELSE Verdict("first_time_dl", 90)
      ELSE Verdict("first_time_dl", 50)

\* ages around the permit limit, and no age given
Ages == {NoAge} \cup { [known |-> TRUE, years |-> y] : y \in {16, 17, 18, 25} }

Profiles ==
  [has_texas_license : BOOLEAN, has_out_of_state_license : BOOLEAN,
   license_expired : BOOLEAN, license_lost_stolen : BOOLEAN,
   is_commercial : BOOLEAN, id_only : BOOLEAN, needs_permit : BOOLEAN,
   age : Ages]

InitClassify ==
  /\ EarlyIdle /\ StepsIdle /\ prevOffStep = FALSE /\ CheckerIdle /\ UnitIdle
  /\ ExtractIdle /\ RankIdle
  /\ dProfile \in Profiles /\ dOut = <<>> /\ dDone = FALSE

D_Classify ==
  /\ ~dDone
  /\ dOut' = determine_service(dProfile)
  /\ dDone' = TRUE
  /\ UNCHANGED dProfile
  /\ UNCHANGED dOthers

SpecClassify == InitClassify /\ [][D_Classify]_vars

\* ------------------------------------------------------------------------
\* DecisionEngine.rank_slots (and with it score_slot) on its own, for every
\* priority and for dates on both sides of each limit of the base score
\* ------------------------------------------------------------------------
\* day differences -1, 0, 1, 2, 3, 4, 7, 8, 14, 15, 30, 31 from Today, and
\* two texts strptime rejects
ScoreDates ==
  { <<3, 9, 2026>>, <<3, 10, 2026>>, <<3, 11, 2026>>, <<3, 12, 2026>>,
    <<3, 13, 2026>>, <<3, 14, 2026>>, <<3, 17, 2026>>, <<3, 18, 2026>>,
    <<3, 24, 2026>>, <<3, 25, 2026>>, <<4, 9, 2026>>, <<4, 10, 2026>>,
    <<2, 30, 2026>>, <<13, 1, 2026>> }

InitRank ==
  /\ EarlyIdle /\ StepsIdle /\ prevOffStep = FALSE /\ CheckerIdle /\ UnitIdle
  /\ ExtractIdle /\ ClassifyIdle
  /\ kDates \in SeqsUpTo(ScoreDates, MaxRank)
  /\ kPriority \in Priorities
  /\ kOut = <<>> /\ kDone = FALSE

K_Rank ==
  /\ ~kDone
  /\ kOut' = rank_slots(kDates, kPriority)
  /\ kDone' = TRUE
  /\ UNCHANGED <<kDates, kPriority>>
  /\ UNCHANGED kOthers

SpecRank == InitRank /\ [][K_Rank]_vars

\* ------------------------------------------------------------------------
\* DPSAppointmentChecker.check_appointments on its own. aEnv: whether the
\* page has a passcode field, whether the mailbox yields a code, whether
\* slots are found, config['screenshot_on_error'].
\* ------------------------------------------------------------------------
Envs == [field : BOOLEAN, code : BOOLEAN, found : BOOLEAN, shots : BOOLEAN]

StepOutcomes == {"ok", "fail", "raise"}

InitChecker ==
  /\ EarlyIdle /\ StepsIdle /\ prevOffStep = FALSE
  /\ ExtractIdle /\ ClassifyIdle /\ RankIdle /\ UnitIdle
  /\ aPc = "setup" /\ aEnv \in Envs /\ aOtpRet = "pending" /\ aCalls = <<>>
  /\ aNotified = 0 /\ aSaved = 0 /\ aRet = "pending"

\* a step that returned True leads on, one that returned False to
\* `return None`, and an exception to the except clause; the finally
\* clause follows each return
Called(step, returned, next) ==
  /\ aCalls' = Append(aCalls, step)
  /\ CASE returned = "ok" -> aPc' = next /\ aRet' = aRet
       [] returned = "fail" -> aPc' = "cleanup" /\ aRet' = "none"
       [] returned = "raise" -> aPc' = "except" /\ aRet' = aRet

\* await self.setup_browser()
A_Setup ==
  /\ aPc = "setup"
  /\ \E o \in {"ok", "raise"} : Called("setup_browser", o, "navigate")
  /\ UNCHANGED <<aEnv, aOtpRet, aNotified, aSaved>>
  /\ UNCHANGED aOthers

\* navigate_to_scheduler, fill_login_form, select_appointment_type and
\* search_location, each under `if not await ...: return None`
A_Step(here, step, next) ==
  /\ aPc = here
  /\ \E o \in StepOutcomes : Called(step, o, next)
  /\ UNCHANGED <<aEnv, aOtpRet, aNotified, aSaved>>
  /\ UNCHANGED aOthers

A_Navigate == A_Step("navigate", "navigate_to_scheduler", "login")

A_Login == A_Step("login", "fill_login_form", "otp")

A_Select == A_Step("select", "select_appointment_type", "location")

A_Location == A_Step("location", "search_location", "slots")

\* handle_otp_verification: True without a passcode field, False without
\* a code or on an exception, True after the code was entered
handle_otp_verification(env, raised) ==
  IF raised THEN "false"
  ELSE IF ~env.field THEN "true"
  ELSE IF ~env.code THEN "false"
  ELSE "true"

A_Otp ==
  /\ aPc = "otp"
  /\ \E raised \in BOOLEAN : aOtpRet' = handle_otp_verification(aEnv, raised)
  /\ aCalls' = Append(aCalls, "handle_otp_verification")
  /\ aPc' = "otp_check"
  /\ UNCHANGED <<aEnv, aNotified, aSaved, aRet>>
  /\ UNCHANGED aOthers

\* if not await self.handle_otp_verification(): return None
A_OtpCheck ==
  /\ aPc = "otp_check"
  /\ IF aOtpRet = "true"
       THEN aPc' = "select" /\ aRet' = aRet
       ELSE aPc' = "cleanup" /\ aRet' = "none"
  /\ UNCHANGED <<aEnv, aOtpRet, aCalls, aNotified, aSaved>>
  /\ UNCHANGED aOthers

\* appointments = await self.get_available_appointments()
A_Slots ==
  /\ aPc = "slots"
  /\ \E raised \in BOOLEAN :
       Called("get_available_appointments",
              IF raised THEN "raise" ELSE IF aEnv.found THEN "ok" ELSE "fail",
              "notify")
  /\ UNCHANGED <<aEnv, aOtpRet, aNotified, aSaved>>
  /\ UNCHANGED aOthers

\* await self.notifier.send_notification(...), which raises nothing
A_Notify ==
  /\ aPc = "notify"
  /\ aNotified' = aNotified + 1
  /\ aPc' = "save"
  /\ UNCHANGED <<aEnv, aOtpRet, aCalls, aSaved, aRet>>
  /\ UNCHANGED aOthers

\* self._save_results(appointments); return appointments
A_Save ==
  /\ aPc = "save"
  /\ aSaved' = aSaved + 1
  /\ aRet' = "appointments"
  /\ aPc' = "cleanup"
  /\ UNCHANGED <<aEnv, aOtpRet, aCalls, aNotified>>
  /\ UNCHANGED aOthers

\* except Exception: the screenshot when configured, return None
A_Except ==
  /\ aPc = "except"
  /\ aCalls' = IF aEnv.shots THEN Append(aCalls, "_save_screenshot") ELSE aCalls
  /\ aRet' = "none"
  /\ aPc' = "cleanup"
  /\ UNCHANGED <<aEnv, aOtpRet, aNotified, aSaved>>
  /\ UNCHANGED aOthers

\* finally: await self.cleanup()
A_Cleanup ==
  /\ aPc = "cleanup"
  /\ aCalls' = Append(aCalls, "cleanup")
  /\ aPc' = "done"
  /\ UNCHANGED <<aEnv, aOtpRet, aNotified, aSaved, aRet>>
  /\ UNCHANGED aOthers

NextChecker ==
  \/ A_Setup \/ A_Navigate \/ A_Login \/ A_Otp \/ A_OtpCheck \/ A_Select
  \/ A_Location \/ A_Slots \/ A_Notify \/ A_Save \/ A_Except \/ A_Cleanup

SpecChecker == InitChecker /\ [][NextChecker]_vars

\* ------------------------------------------------------------------------
\* BookingEngine.get_available_appointments on its own: the date texts the
\* date cards show, in page order.
\* ------------------------------------------------------------------------
\* texts that date_pattern matches: full dates, one of them a text that
\* strptime rejects
SlotTexts == DateUniverse \cup { <<3, 12, 2026>>, <<2, 30, 2026>> }

SlotPages == SeqsUpTo(SlotTexts, MaxRaw) \cup LongLists

\* the dict of get_available_appointments, None when no date card is found
SlotsResult(raw) ==
  LET date_candidates == extract_date_cards(raw)
  IN  IF date_candidates = <<>> THEN NoSlots
      ELSE [some |-> TRUE,
            next_available |-> date_candidates[1],
            available_dates |-> Take(date_candidates, AvailableCap)]

InitSlots ==
  /\ EarlyIdle /\ StepsIdle /\ prevOffStep = FALSE
  /\ ExtractIdle /\ ClassifyIdle /\ RankIdle /\ CheckerIdle
  /\ VariantsIdle /\ ClickIdle
  /\ gRaw \in SlotPages /\ gOut = NoSlots /\ gDone = FALSE

G_Slots ==
  /\ ~gDone
  /\ gOut' = SlotsResult(gRaw)
  /\ gDone' = TRUE
  /\ UNCHANGED gRaw
  /\ UNCHANGED gOthers

SpecSlots == InitSlots /\ [][G_Slots]_vars

\* ------------------------------------------------------------------------
\* BookingEngine._date_variants on its own. A text is its core with or
\* without white space before and after it; the core is empty (<<>>), a
\* word (<<"word">>), a date "m/d/y" (three numbers as written) or a short
\* date "m/d" (two); a number as written is <<value, digits>>.
\* ------------------------------------------------------------------------
Bare(core) == [lead |-> FALSE, core |-> core, trail |-> FALSE]

\* str.strip()
Strip(t) == Bare(t.core)

\* f"{n}"
Plain(n) == <<n, IF n < 10 THEN 1 ELSE IF n < 100 THEN 2 ELSE IF n < 1000 THEN 3 ELSE 4>>

\* f"{n:02d}"
Padded2(n) == <<n, IF n < 10 THEN 2 ELSE Plain(n)[2]>>

\* datetime.strptime(text, "%m/%d/%Y") succeeds: one or two digits for
\* month and day, four for the year, a date of the calendar
TextParseable(core) ==
  /\ Len(core) = 3
  /\ core[1][2] \in {1, 2} /\ core[2][2] \in {1, 2} /\ core[3][2] = 4
  /\ Parseable(<<core[1][1], core[2][1], core[3][1]>>)

date_variants_NoDedupMutant(date_text) ==
  LET c == date_text.core
      first == IF date_text # NoText THEN <<Strip(date_text)>> ELSE <<>>
      more  == IF TextParseable(c)
               THEN << Bare(<<Plain(c[1][1]), Plain(c[2][1]), Plain(c[3][1])>>),
                       Bare(<<Padded2(c[1][1]), Padded2(c[2][1]), Plain(c[3][1])>>),
                       Bare(<<Plain(c[1][1]), Plain(c[2][1])>>),
                       Bare(<<Padded2(c[1][1]), Padded2(c[2][1])>>) >>
               ELSE <<>>
  IN  SelectSeq(first \o more, LAMBDA value : value # NoText)

date_variants(date_text) ==
  LET c == date_text.core
      first == IF date_text # NoText THEN <<Strip(date_text)>> ELSE <<>>
      more  == IF TextParseable(c)
               THEN << Bare(<<Plain(c[1][1]), Plain(c[2][1]), Plain(c[3][1])>>),
                       Bare(<<Padded2(c[1][1]), Padded2(c[2][1]), Plain(c[3][1])>>),
                       Bare(<<Plain(c[1][1]), Plain(c[2][1])>>),
                       Bare(<<Padded2(c[1][1]), Padded2(c[2][1])>>) >>
               ELSE <<>>
  IN  Dedup(SelectSeq(first \o more, LAMBDA value : value # NoText))

\* months, days and years as written, among them 13, a two-digit year and
\* a year below 1000
VariantCores ==
  { <<mt, dt, yt>> : mt \in { <<3, 1>>, <<3, 2>>, <<12, 2>>, <<13, 2>> },
                     dt \in { <<5, 1>>, <<5, 2>>, <<25, 2>>, <<31, 2>> },
                     yt \in { <<2026, 4>>, <<999, 4>>, <<26, 2>> } }
  \cup { <<>>, <<"word">> }

VariantTexts == [lead : BOOLEAN, core : VariantCores, trail : BOOLEAN]

InitVariants ==
  /\ EarlyIdle /\ StepsIdle /\ prevOffStep = FALSE
  /\ ExtractIdle /\ ClassifyIdle /\ RankIdle /\ CheckerIdle
  /\ SlotsIdle /\ ClickIdle
  /\ vIn \in VariantTexts /\ vOut = <<>> /\ vDone = FALSE

V_Variants ==
  /\ ~vDone
  /\ vOut' = date_variants(vIn)
  /\ vDone' = TRUE
  /\ UNCHANGED vIn
  /\ UNCHANGED vOthers

SpecVariants == InitVariants /\ [][V_Variants]_vars

\* ------------------------------------------------------------------------
\* BookingEngine._click_button_by_text on its own. A button is its label,
\* lower case, as a list of words, and what its calls do: "ok",
\* "text_raises" (text_content raises), "forced" (the scripted click raises,
\* the forced click works), "stuck" (both clicks raise).
\* ------------------------------------------------------------------------
ButtonLabels == { <<"log", "on">>, <<"next">>, <<"previous">>, <<"cancel">> }

ButtonCalls == {"ok", "text_raises", "forced", "stuck"}

Buttons == [label : ButtonLabels, calls : ButtonCalls]

\* fill_login_form: ['log on', 'submit', 'continue', 'next']
LoginKeywords == { <<"log", "on">>, <<"submit">>, <<"continue">>, <<"next">> }

\* _click_next: ["next"]; _click_previous: ["previous", "<- previous"]
KeywordLists ==
  { LoginKeywords, { <<"next">> }, { <<"previous">>, <<"<-", "previous">> } }

InitClick ==
  /\ EarlyIdle /\ StepsIdle /\ prevOffStep = FALSE
  /\ ExtractIdle /\ ClassifyIdle /\ RankIdle /\ CheckerIdle
  /\ SlotsIdle /\ VariantsIdle
  /\ cButtons \in SeqsUpTo(Buttons, MaxButtons)
  /\ cKeywords \in KeywordLists
  /\ cPage \in {"none", "ok", "broken"}
  /\ cPc = "entry" /\ cPos = 0 /\ cClicked = <<>> /\ cRet = "pending"

CReturn(v) == cPc' = "done" /\ cRet' = v

\* any(kw in text for kw in keywords)
Matches(label, keywords) == \E kw \in keywords : Contains(label, kw)

\* if not page: return False
C_Entry ==
  /\ cPc = "entry"
  /\ IF cPage = "none" THEN CReturn("false")
     ELSE cPc' = "query" /\ cRet' = cRet
  /\ UNCHANGED <<cButtons, cKeywords, cPage, cPos, cClicked>>
  /\ UNCHANGED cOthers

\* buttons = await page.query_selector_all("button"), outside every try
C_Query ==
  /\ cPc = "query"
  /\ IF cPage = "broken"
     THEN CReturn("raised") /\ cPos' = cPos
     ELSE cPc' = "loop" /\ cPos' = 1 /\ cRet' = cRet
  /\ UNCHANGED <<cButtons, cKeywords, cPage, cClicked>>
  /\ UNCHANGED cOthers

\* for btn in buttons: ... return False
C_Loop ==
  /\ cPc = "loop"
  /\ IF cPos > Len(cButtons) THEN CReturn("false")
     ELSE cPc' = "text" /\ cRet' = cRet
  /\ UNCHANGED <<cButtons, cKeywords, cPage, cPos, cClicked>>
  /\ UNCHANGED cOthers

\* text = (await btn.text_content() or "").lower().strip(), outside the
\* try; if any(kw in text for kw in keywords)
C_Text ==
  /\ cPc = "text"
  /\ IF cButtons[cPos].calls = "text_raises"
     THEN CReturn("raised") /\ cPos' = cPos
     ELSE IF Matches(cButtons[cPos].label, cKeywords)
          THEN cPc' = "click" /\ cPos' = cPos /\ cRet' = cRet
          ELSE cPc' = "loop" /\ cPos' = cPos + 1 /\ cRet' = cRet
  /\ UNCHANGED <<cButtons, cKeywords, cPage, cClicked>>
  /\ UNCHANGED cOthers

\* await page.evaluate("el => el.click()", btn)
C_Click ==
  /\ cPc = "click"
  /\ IF cButtons[cPos].calls = "ok"
     THEN /\ cClicked' = Append(cClicked, cButtons[cPos].label)
          /\ CReturn("true")
     ELSE /\ cPc' = "force"
          /\ UNCHANGED <<cClicked, cRet>>
  /\ UNCHANGED <<cButtons, cKeywords, cPage, cPos>>
  /\ UNCHANGED cOthers

\* except: await btn.click(force=True, timeout=5000); the outer except
\* goes on to the next button
C_Force ==
  /\ cPc = "force"
  /\ IF cButtons[cPos].calls = "forced"
     THEN /\ cClicked' = Append(cClicked, cButtons[cPos].label)
          /\ CReturn("true")
          /\ cPos' = cPos
     ELSE /\ cPc' = "loop" /\ cPos' = cPos + 1
          /\ UNCHANGED <<cClicked, cRet>>
  /\ UNCHANGED <<cButtons, cKeywords, cPage>>
  /\ UNCHANGED cOthers

NextClick == C_Entry \/ C_Query \/ C_Loop \/ C_Text \/ C_Click \/ C_Force

SpecClick == InitClick /\ [][NextClick]_vars

\* ------------------------------------------------------------------------
\* Properties
\* ------------------------------------------------------------------------
NoHandles == ~page /\ ~context /\ ~browser /\ ~pw

\* C1: when run_check_and_book has returned, cleanup has been executed and
\* the engine holds no page, context, browser or playwright handle,
\* whatever the way the run ended and whatever stop_job did meanwhile.
C1_CleanupOnReturn == rpc = "returned" => (cleaned /\ NoHandles)

\* a run that returned none because a step failed, with stop_job called
C1_Witness == rpc = "returned" /\ cleaned /\ failed # "none" /\ stops > 0

\* some step executor, booking included, returned failure
StepFailed == failed # "none" \/ booked = "false"

IsPrefixOf(s, t) == Len(s) <= Len(t) /\ s = SubSeq(t, 1, Len(s))

\* C2 as stated: fixed order, nothing invoked after a failure, and the run
\* returns none once any step (booking included) has returned failure.
C2_Original ==
  /\ IsPrefixOf(invoked, StepOrder)
  /\ failed # "none" => invoked[Len(invoked)] = failed
  /\ (rpc = "returned" /\ StepFailed) => ~result.some

\* C2 amended: the executors are invoked in the fixed order, a step only
\* after every earlier one succeeded; after a failure of a step before
\* booking nothing else is invoked and the run returns none; when booking
\* fails the run returns the appointments with booking_confirmed false.
C2_StepOrder ==
  /\ IsPrefixOf(invoked, StepOrder)
  /\ failed # "none" => invoked[Len(invoked)] = failed
  /\ (rpc = "returned" /\ failed # "none") => ~result.some
  /\ (rpc = "returned" /\ booked = "false") =>
        (result.some /\ ~result.booking_confirmed /\ invoked = StepOrder)

\* booking was invoked and failed, the run returned its appointments
C2_Witness ==
  rpc = "returned" /\ booked = "false" /\ result.some /\ invoked = StepOrder

\* C3: once the Confirm action has been issued in auto_book_slot, no further
\* candidate date is attempted in that run.
C3_NoCandidateAfterConfirm ==
  [][(confirmClicks >= 1 /\ confirmClicks' >= 1) => attempted' = attempted]_vars

\* Confirm issued, confirmation not detected, candidates left untried
C3_Witness ==
  /\ rpc = "returned" /\ confirmClicks = 1 /\ booked = "false"
  /\ Len(attempted) < Len(candidates)

ReachedConfirm == \E i \in DOMAIN outcome : outcome[i] = "confirm"

HasConfirmPhrase(text) == \E k \in ConfirmPhrases : Contains(text, k)

C5_EndsOnlyExhaustedOrConfirm ==
  (booked # "none" /\ attempted # <<>>) => endReason \in {"exhausted", "confirm"}

EveryCandidateFailed ==
  /\ candidates # <<>>
  /\ \A i \in DOMAIN outcome : outcome[i] \in {"fail", "no_time", "raised"}

\* C6 as stated: when every candidate failed before the confirmation step,
\* every candidate was attempted once in list order, the call returned
\* False and no error-level event was emitted.
C6_ExhaustionIsNotAnError ==
  (booked # "none" /\ EveryCandidateFailed) =>
     (attempted = candidates /\ booked = "false" /\ "error" \notin bookLevels)

\* the first candidate had no time slot, the second was confirmed, and no
\* other helper reported a failure
C7_Scenario ==
  /\ rpc = "returned"
  /\ Len(candidates) >= 2
  /\ outcome[1] = "no_time"
  /\ outcome[2] = "confirm"
  /\ confirmClicks = 1
  /\ HasConfirmPhrase(finalContent)
  /\ ~stubFault

\* the dates a run result carries for the caller: the target of the booking
\* and the appointment date the scheduler stores and announces
ResultNames(d) == result.target_date = d \/ result.next_available = d

\* C7 as stated: in that scenario Previous is clicked exactly once and the
\* run result has booking_confirmed = true and names the second date.
C7_BookedSecondDate ==
  C7_Scenario =>
    (prevClicks = 1 /\ result.booking_confirmed /\ ResultNames(candidates[2]))

AttemptScore(i) == score_slot(attempted[i], priority)

\* C8 as stated: the attempted dates are in non-increasing score order.
C8_Original ==
  \A i \in 2..Len(attempted) : AttemptScore(i) <= AttemptScore(i - 1)

FirstIndex(s, e) == CHOOSE i \in 1..Len(s) : s[i] = e /\ \A j \in 1..(i - 1) : s[j] # e

\* C8 amended: the first date attempted is a top-ranked one (no available
\* date scores higher for the job's priority); the dates attempted after it
\* follow the order of the available-dates list.
C8_BestFirstThenListOrder ==
  attempted # <<>> =>
    /\ \A i \in 1..Len(result.available_dates) :
          score_slot(result.available_dates[i], priority) <= AttemptScore(1)
    /\ \A i \in 1..Len(attempted) : attempted[i] \in Range(result.available_dates)
    /\ \A i, j \in 2..Len(attempted) :
          i < j => FirstIndex(result.available_dates, attempted[i])
                     < FirstIndex(result.available_dates, attempted[j])

\* three dates attempted, the third scoring higher than the second
C8_Witness ==
  Len(attempted) = 3 /\ AttemptScore(2) < AttemptScore(3)

FnRest == IF fnTarget # NoDate THEN Tail(fnOut) ELSE fnOut

FnWanted == Range(fnAvail) \ {NoDate, fnTarget}

\* C9: the list _build_candidate_dates returns has no duplicates and at
\* most 20 elements, starts with the target when one is supplied, and
\* continues with the non-empty available dates not seen before, in the
\* order of their first occurrence, as far as the cap allows.
C9_CandidateList ==
  fnDone =>
    /\ NoDuplicates(fnOut)
    /\ Len(fnOut) <= CandidateCap
    /\ fnTarget # NoDate => (fnOut # <<>> /\ fnOut[1] = fnTarget)
    /\ Range(FnRest) \subseteq FnWanted
    /\ \A i, j \in 1..Len(FnRest) :
          i < j => FirstIndex(fnAvail, FnRest[i]) < FirstIndex(fnAvail, FnRest[j])
    /\ \A d \in FnWanted \ Range(FnRest) :
          /\ Len(fnOut) = CandidateCap
          /\ \A i \in 1..Len(FnRest) :
                FirstIndex(fnAvail, FnRest[i]) < FirstIndex(fnAvail, d)

\* the target leads a list that the cap cut short
C9_Witness ==
  /\ fnDone /\ fnTarget # NoDate /\ fnOut[1] = fnTarget
  /\ Len(fnOut) = CandidateCap /\ Len(fnAvail) > CandidateCap

\* C10 as stated: a status of booked, failed or stopped never changes.
C10_TerminalIsFinal ==
  [][(status \in TerminalStatuses) => (status' = status)]_vars

\* C11: under every interleaving of ticks, start_job and stop_job the
\* attempts counter of the job never decreases and never exceeds
\* max_attempts.
C11_AttemptsMonotoneAndBounded ==
  /\ [](attempts <= MaxAttempts)
  /\ [][attempts' >= attempts]_vars

\* the counter reached max_attempts, a later tick took the limit branch,
\* and stop_job was called as well
C11_Witness == attempts = MaxAttempts /\ limited /\ stops > 0

\* C12: a tick that invokes the engine leaves the counter exactly one above
\* the value it read, whatever the run returns; a tick that ends without
\* invoking the engine leaves the counter as it read it; so the counter
\* equals the number of engine runs started, plus one between the
\* increment and the start of the engine.
C12_OneIncrementPerEngineTick ==
  /\ [](tpc \in {"engine", "deregister", "finally"} => attempts = snap.attempts + 1)
  /\ [](attempts = runs + (IF tpc = "launch" THEN 1 ELSE 0))
  /\ [][(tpc # "idle" /\ tpc' = "idle") =>
          attempts' = snap.attempts + (IF tpc = "finally" THEN 1 ELSE 0)]_vars

\* a tick has ended whose run returned none because a step failed
C12_Witness ==
  /\ tpc = "idle" /\ rpc = "idle" /\ runs = 1 /\ attempts = 1
  /\ ~result.some /\ failed # "none"

\* C13: a tick that takes the max-attempts branch sets the status to
\* failed and removes the scheduled tick without starting an engine; the
\* engine is started at most max_attempts times, and once that tick has
\* ended no tick runs and none is registered.
C13_LimitTickFailsAndDeregisters ==
  /\ [](runs <= MaxAttempts)
  /\ []((limited /\ tpc # "limit_remove") => (tpc = "idle" /\ ~scheduled))
  /\ [][(tpc = "limit" /\ tpc' # "limit") => status' = "failed"]_vars
  /\ [][(limited \/ tpc = "limit") => runs' = runs]_vars

\* the limit tick has ended after max_attempts engine runs
C13_Witness ==
  limited /\ tpc = "idle" /\ ~scheduled /\ runs = MaxAttempts /\ status = "failed"

\* C14: at any time at most one engine of the job has a live browser
\* session, whatever the interleaving of ticks, start_job (also for a job
\* that is already scheduled) and stop_job.
C14_OneLiveSessionPerJob ==
  Cardinality({ i \in Instances : xLive[i] }) <= 1

\* an engine that stop_job popped is live while the job has been registered
\* again: a tick is due, and the executor does not start it
C14_Witness ==
  /\ \E i \in Instances : xLive[i]
  /\ xActive = 0 /\ xScheduled /\ xStarts = 2 /\ xStops >= 1

RunEnded == ePos = 0 /\ eRet # "pending"

\* C17: an exception of the status sink never leaves _emit: no run ends
\* by that exception, and a run whose sink raised returns the same value
\* and issues the same browser actions in the same order as the run of the
\* same scenario whose sink never fails.
C17_SinkFailureIsSwallowed ==
  /\ eRet # "raised"
  /\ (eRun = 2 /\ RunEnded) => (eRet = eFirst.ret /\ eActs = eFirst.acts)

\* both runs of a confirmed booking have ended, the sink raised in the first
C17_Witness ==
  eRun = 2 /\ RunEnded /\ eRaised /\ eRet = "booked" /\ eFirst.ret = "booked"

\* the run ended in failure: a step executor returned failure, the flow
\* raised, or the confirmation was not detected after Confirm
RunFailed ==
  eScn.how \in {"timeout", "raise", "closed", "no_page", "no_code", "fail",
                "unconfirmed"}

\* C18 as stated: a run that ended in failure has passed to the sink at
\* least one error-level event that carries a screenshot path.
C18_FailureHasErrorScreenshot ==
  (RunEnded /\ RunFailed) =>
     \E e \in eEvents : e.level = "error" /\ e.shot

\* C19 as stated: every event passed to the sink has one of the levels
\* info, success, warning, error.
C19_LevelsAreKnown ==
  \A e \in eEvents : e.level \in Levels

C21_SkipOrExternalResolution ==
  /\ [][((hPc = "advanced" /\ hPage = "options") \/
         (hPc = "header" /\ hPage \notin {"closed", "otp"}))
        => ((hPc' # hPc) => (hRet' = "success" /\ hMailbox' = 0))]_vars
  /\ [][(hPc = "extra" /\ hPc' = "done")
        => (hMailbox = 1 /\
            hRet' = (IF hPage' = "options" THEN "success" ELSE "failure"))]_vars

C21_Witness ==
  /\ hPc = "done" /\ hRet = "failure" /\ hMailbox = 1 /\ hPage = "otp"
  /\ hField

\* C27: select_service_type does not return failure while the page is on
\* the Customer Details step.
C27_NoFailureOnCustomerDetails ==
  (sPc = "done" /\ sRet = "failure") => ~OnCustomerDetails

ClickCount == Cardinality({ i \in DOMAIN sLog : sLog[i] = "click" })

C30_PreviousOnlyAfterFirst ==
  [][(prevClicks' > prevClicks) => (idx > 1)]_vars

\* C30: auto_book_slot clicks Previous only on a page classified as a time
\* or confirm step, and only in two places: before a candidate other than
\* the first is tried, and, for any candidate, the first included, after
\* its date could not be clicked.
C30_PreviousOnlyOnLaterStep ==
  /\ [](~prevOffStep)
  /\ [][(prevClicks' > prevClicks)
        => (rpc = "book_date_retry" \/ (rpc = "book_back" /\ idx > 1))]_vars

C30_Witness == prevClicks = 1 /\ idx = 1 /\ rpc = "book_next1" /\ ~prevOffStep

\* C22: passcode extraction returns the capture of the first pattern of
\* the list that matches the body; a body whose only digits are one bare
\* run of 4 to 6 digits, with no keyword, yields exactly that run; a body
\* with no digits yields none.
C22_FirstPatternOrBareRun ==
  mDone =>
    /\ \A n \in 1..Len(PatternMatches(mBody)) :
         (/\ PatternMatches(mBody)[n] # NoCapture
          /\ \A k \in 1..(n - 1) : PatternMatches(mBody)[k] = NoCapture)
         => mOut = PatternMatches(mBody)[n]
    /\ \A i \in 1..Len(mBody) :
         (/\ DigitLen(mBody[i]) \in 4..6
          /\ \A j \in 1..Len(mBody) : j # i => mBody[j] \notin DigitRuns \cup Keywords)
         => mOut = Capture(i, DigitLen(mBody[i]))
    /\ (\A i \in 1..Len(mBody) : mBody[i] \notin DigitRuns) => mOut = NoCapture

\* the rules of C23 in their order: condition, service key, confidence
C23_Rules(p) ==
  << <<p.is_commercial, "cdl", 95>>,
     <<p.id_only, "texas_id", 95>>,
     <<p.needs_permit \/ (p.age.known /\ p.age.years < 18), "permit", 95>>,
     <<p.license_lost_stolen /\ p.has_texas_license, "replace_dl", 95>>,
     <<p.license_expired /\ p.has_texas_license, "renew_dl", 95>>,
     <<p.has_out_of_state_license /\ ~p.has_texas_license, "transfer_oos", 90>>,
     <<p.has_texas_license /\ ~p.license_expired /\ ~p.license_lost_stolen,
       "change_update", 70>>,
     <<~p.has_texas_license /\ ~p.has_out_of_state_license, "first_time_dl", 90>>,
     <<TRUE, "first_time_dl", 50>> >>

C23_NoFlags(p) ==
  /\ ~p.has_texas_license /\ ~p.has_out_of_state_license /\ ~p.license_expired
  /\ ~p.license_lost_stolen /\ ~p.is_commercial /\ ~p.id_only /\ ~p.needs_permit

\* C23: classify returns the service key and confidence of the first rule,
\* in the order commercial, id-only, permit, lost/stolen, expired,
\* out-of-state, valid Texas license, no license, fallback, whose condition
\* holds; age 16 without flags gives permit at 0.95, age 25 without flags
\* first_time_dl at 0.90.
C23_FirstRuleWins ==
  dDone =>
    /\ \A n \in 1..Len(C23_Rules(dProfile)) :
         (/\ C23_Rules(dProfile)[n][1]
          /\ \A k \in 1..(n - 1) : ~C23_Rules(dProfile)[k][1])
         => dOut = <<C23_Rules(dProfile)[n][2], C23_Rules(dProfile)[n][3]>>
    /\ (C23_NoFlags(dProfile) /\ dProfile.age = [known |-> TRUE, years |-> 16])
         => dOut = <<"permit", 95>>
    /\ (C23_NoFlags(dProfile) /\ dProfile.age = [known |-> TRUE, years |-> 25])
         => dOut = <<"first_time_dl", 90>>

C23_Witness ==
  /\ dDone /\ dOut = <<"permit", 95>> /\ C23_NoFlags(dProfile)
  /\ dProfile.age = [known |-> TRUE, years |-> 16]

\* the step function of C24, in hundredths
C24_Step(d) ==
  IF d < 0 THEN 0
  ELSE IF d = 0 THEN 100
  ELSE IF d = 1 THEN 90
  ELSE IF d <= 3 THEN 75
  ELSE IF d <= 7 THEN 60
  ELSE IF d <= 14 THEN 40
  ELSE IF d <= 30 THEN 25
  ELSE 10

\* C24: with the default priority score_slot is the step function of the
\* day difference (0.0 for a past date, 1.00, 0.90, 0.75, 0.60, 0.40, 0.25,
\* 0.10), and 0.1 for a text that is not a date.
C24_DefaultScoreIsStepFunction ==
  (kDone /\ kPriority = "any") =>
    \A i \in 1..Len(kOut) :
      kOut[i].score = (IF Parseable(kOut[i].date)
                       THEN C24_Step(DayDelta(kOut[i].date)) ELSE 10)

C24_Witness ==
  /\ kDone /\ kPriority = "any" /\ Len(kOut) = 3
  /\ kOut[1] = [date |-> <<3, 17, 2026>>, score |-> 60]
  /\ kOut[2] = [date |-> <<3, 18, 2026>>, score |-> 40]
  /\ kOut[3] = [date |-> <<2, 30, 2026>>, score |-> 10]

C25_Dated(i) == Parseable(kOut[i].date) /\ DayDelta(kOut[i].date) >= 0

\* C25 as stated: with same_day a later date scores exactly half its base
\* score.
C25_SameDayHalves ==
  (kDone /\ kPriority = "same_day") =>
    \A i \in 1..Len(kOut) :
      (C25_Dated(i) /\ DayDelta(kOut[i].date) > 0)
        => 20 * kOut[i].score = BaseScore(DayDelta(kOut[i].date))

\* the same_day score of a later date: half the step value, rounded to two
\* decimals with ties to even
C25_Halved(d) ==
  IF d = 1 THEN 45
  ELSE IF d <= 3 THEN 38
  ELSE IF d <= 7 THEN 30
  ELSE IF d <= 14 THEN 20
  ELSE IF d <= 30 THEN 12
  ELSE 5

\* C25: for a date that is not past, same_day gives 1.0 for today and, for
\* a later date, half the base score rounded to two decimals (0.45, 0.38,
\* 0.30, 0.20, 0.12, 0.05), so a +1-day date scores below 0.90; next_day
\* gives at least 0.95 up to 1 day away; this_week gives at least 0.80 up
\* to 7 days away; every score lies in [0, 1].
C25_PriorityOverride ==
  kDone =>
    \A i \in 1..Len(kOut) :
      LET d == DayDelta(kOut[i].date)
          v == kOut[i].score
      IN  /\ v \in 0..100
          /\ (C25_Dated(i) /\ kPriority = "same_day")
               => v = (IF d = 0 THEN 100 ELSE C25_Halved(d))
          /\ (C25_Dated(i) /\ kPriority = "same_day" /\ d = 1) => v < 90
          /\ (C25_Dated(i) /\ kPriority = "next_day" /\ d <= 1) => v >= 95
          /\ (C25_Dated(i) /\ kPriority = "this_week" /\ d <= 7) => v >= 80

C25_Witness ==
  /\ kDone /\ kPriority = "same_day" /\ Len(kOut) = 3
  /\ kOut[1] = [date |-> <<3, 10, 2026>>, score |-> 100]
  /\ kOut[2] = [date |-> <<3, 11, 2026>>, score |-> 45]
  /\ kOut[3] = [date |-> <<3, 12, 2026>>, score |-> 38]

C26_Dates == [i \in 1..Len(kOut) |-> kOut[i].date]

C26_Scored(dates, v) ==
  SelectSeq(dates, LAMBDA d : score_slot(d, kPriority) = v)

\* C26: rank_slots returns one {date, score} entry per input date, each
\* with its score_slot value, scores non-increasing along the list, and
\* the dates of one score in their input order.
C26_RankIsStableDescending ==
  kDone =>
    /\ Len(kOut) = Len(kDates)
    /\ \A i \in 1..Len(kOut) :
         kOut[i].score = score_slot(kOut[i].date, kPriority)
    /\ \A i \in 1..(Len(kOut) - 1) : kOut[i].score >= kOut[i + 1].score
    /\ \A v \in { score_slot(kDates[i], kPriority) : i \in 1..Len(kDates) } :
         C26_Scored(C26_Dates, v) = C26_Scored(kDates, v)

C26_Witness ==
  /\ kDone /\ kPriority = "this_week"
  /\ kDates = << <<3, 17, 2026>>, <<3, 10, 2026>>, <<3, 12, 2026>> >>
  /\ C26_Dates = << <<3, 10, 2026>>, <<3, 17, 2026>>, <<3, 12, 2026>> >>

\* C28: check_appointments goes on to appointment-type selection, location
\* search and slot extraction when handle_otp_verification returned False,
\* and when appointments are found it returns them after exactly one
\* notification and one save.
C28_ContinuesWithoutPasscode ==
  /\ [][(aPc = "otp_check" /\ aOtpRet = "false") => (aPc' \in {"otp_check", "select"})]_vars
  /\ [](aRet = "appointments" => (aNotified = 1 /\ aSaved = 1))

\* C15 as stated: when stop_job returns, no tick of the job is registered
\* and the engine it cleaned holds no browser handle.
C15_StopLeavesNothing ==
  [][(spc = "update" /\ spc' = "idle") =>
        (~scheduled' /\ (popped => NoHandles'))]_vars

\* C16: no step of the engine changes the status; when the run has
\* returned, the tick sets booked (and goes on to deregister) exactly for a
\* result with booking_confirmed, appointment_found for a result without,
\* and leaves the status as it is (monitoring, unless stop_job wrote it)
\* when the run returned none.
C16_SchedulerMapsOutcome ==
  /\ [][(tpc = "engine" /\ rpc' # rpc) => status' = status]_vars
  /\ [][(tpc = "engine" /\ tpc' # "engine") =>
          IF result.some
          THEN /\ status' = (IF result.booking_confirmed
                             THEN "booked" ELSE "appointment_found")
               /\ (result.booking_confirmed <=> tpc' = "deregister")
          ELSE /\ status' = status
               /\ (stops = 0 => status' = "monitoring")]_vars
  /\ [][(tpc = "deregister" /\ tpc' # "deregister") => ~scheduled']_vars
  /\ [][(status' = "booked" /\ status # "booked") => result.booking_confirmed]_vars

\* a confirmed booking mapped to booked, its tick deregistered
C16_Witness ==
  /\ status = "booked" /\ tpc = "idle" /\ ~scheduled /\ stops = 0
  /\ result.booking_confirmed

\* C38: for every profile with boolean flags and an integer or absent age,
\* classify returns neither the 0.50 fallback nor the 0.85 permit result:
\* the confidence is 0.95, 0.90 or 0.70 and the service key is a key of
\* the service table.
C38_NoLowConfidenceVerdict ==
  dDone => /\ dOut[2] \in {95, 90, 70}
           /\ dOut[1] \in ServiceKeys

\* a minor without any license, the case the 0.85 branch was written for
C38_Witness ==
  /\ dDone /\ dOut = <<"permit", 95>> /\ C23_NoFlags(dProfile)
  /\ dProfile.age = [known |-> TRUE, years |-> 17]

\* C39: for every priority a well-formed date that is today or later never
\* scores lower than a malformed date string, so rank_slots never places a
\* malformed string ahead of such a date.
C39_ValidNeverBelowMalformed ==
  kDone =>
    \A i, j \in 1..Len(kOut) :
      (C25_Dated(i) /\ ~Parseable(kOut[j].date))
        => (kOut[i].score >= kOut[j].score /\ i < j)

\* days between today and a slot date
C40_Days(s) == Ordinal(s) - Ordinal(Today)

\* C40: for each fixed priority score_slot is non-increasing in the number
\* of days between today and the slot date over the dates that are today
\* or later.
C40_LaterNeverScoresHigher ==
  kDone =>
    \A i, j \in 1..Len(kOut) :
      (/\ Parseable(kOut[i].date) /\ Parseable(kOut[j].date)
       /\ 0 <= C40_Days(kOut[i].date)
       /\ C40_Days(kOut[i].date) <= C40_Days(kOut[j].date))
        => kOut[i].score >= kOut[j].score

\* the boosted week of this_week, then the drop after it
C40_Witness ==
  /\ kDone /\ kPriority = "this_week" /\ Len(kOut) = 3
  /\ kOut[1] = [date |-> <<3, 11, 2026>>, score |-> 90]
  /\ kOut[2] = [date |-> <<3, 17, 2026>>, score |-> 80]
  /\ kOut[3] = [date |-> <<3, 18, 2026>>, score |-> 40]

\* calendar order of two date texts
C33_Before(a, b) ==
  \/ a[3] < b[3]
  \/ a[3] = b[3] /\ a[1] < b[1]
  \/ a[3] = b[3] /\ a[1] = b[1] /\ a[2] <= b[2]

\* C33: for every page content the dates of slot discovery contain no
\* duplicates and are in ascending calendar order, next_available is the
\* first of them, and available_dates carries at most the first 15.
C33_DatesSortedAndCapped ==
  (gDone /\ gOut.some) =>
    LET dates == extract_date_cards(gRaw)
    IN  /\ NoDuplicates(dates)
        /\ \A i \in 1..(Len(dates) - 1) : C33_Before(dates[i], dates[i + 1])
        /\ gOut.next_available = dates[1]
        /\ Len(gOut.available_dates) <= AvailableCap
        /\ gOut.available_dates = SubSeq(dates, 1, Len(gOut.available_dates))

\* the four forms of C34 for a core that is a date
C34_Forms(c) ==
  { Bare(<<Plain(c[1][1]), Plain(c[2][1]), Plain(c[3][1])>>),
    Bare(<<Padded2(c[1][1]), Padded2(c[2][1]), Plain(c[3][1])>>),
    Bare(<<Plain(c[1][1]), Plain(c[2][1])>>),
    Bare(<<Padded2(c[1][1]), Padded2(c[2][1])>>) }

\* C34 as stated: the list starts with the literal input when the text
\* parses, and is the literal alone for an unparseable non-empty text.
C34_VariantsStartWithLiteral ==
  vDone =>
    /\ TextParseable(vIn.core) =>
         /\ NoDuplicates(vOut) /\ vOut[1] = vIn
         /\ C34_Forms(vIn.core) \subseteq Range(vOut)
    /\ (~TextParseable(vIn.core) /\ vIn # NoText) => vOut = <<vIn>>

\* C34: the list has no duplicates; for a text that parses after its
\* surrounding white space is removed it starts with the stripped text and
\* contains the unpadded and the zero-padded month/day/year and month/day
\* forms; for a text that does not parse it is the stripped text alone, and
\* empty when nothing but white space was given.
C34_VariantsOfStrippedText ==
  vDone =>
    /\ NoDuplicates(vOut)
    /\ TextParseable(vIn.core) =>
         /\ vOut[1] = Strip(vIn)
         /\ C34_Forms(vIn.core) \subseteq Range(vOut)
    /\ (~TextParseable(vIn.core) /\ vIn.core # <<>>) => vOut = <<Strip(vIn)>>
    /\ vIn.core = <<>> => vOut = <<>>

\* "3/5/2026" gives "3/5/2026", "03/05/2026", "3/5", "03/05"
C34_Witness ==
  /\ vDone /\ vIn = Bare(<< <<3, 1>>, <<5, 1>>, <<2026, 4>> >>)
  /\ vOut = << Bare(<< <<3, 1>>, <<5, 1>>, <<2026, 4>> >>),
               Bare(<< <<3, 2>>, <<5, 2>>, <<2026, 4>> >>),
               Bare(<< <<3, 1>>, <<5, 1>> >>),
               Bare(<< <<3, 2>>, <<5, 2>> >>) >>

\* C31: the click helpers report an element that cannot be found or
\* clicked, any failing browser call included, by returning false; none
\* raises to its caller.
C31_ClickHelpersNeverRaise == cRet # "raised"

\* C32: in fill_login_form the submit click goes to a "Log On" button
\* whenever the page has one, whatever the order of the buttons; a button
\* matching submit, continue or next is clicked only when there is none.
C32_LogOnPreferred ==
  (/\ cPc = "done" /\ cKeywords = LoginKeywords /\ cClicked # <<>>
   /\ \E i \in 1..Len(cButtons) : cButtons[i].label = <<"log", "on">>)
    => cClicked = << <<"log", "on">> >>

\* C37: after stop_job has completed for a job, no run of that job issues
\* the Confirm action, a run that was in flight when stop_job was called,
\* at any step, the browser setup included.
C37_NoConfirmAfterStop ==
  [][(stops >= 1 /\ spc = "idle") => confirmClicks' <= confirmClicks]_vars

\* C36: over the whole life of a job at most one Confirm action is issued:
\* after a run that issued Confirm, detected or not, no later tick of the
\* job issues Confirm again.
C36_OneConfirmPerJob == xConfirms <= 1

====
